---------------------------- MODULE Spec2Model ----------------------------
(***************************************************************************)
(* Model of the invoice-code extraction service.                           *)
(*                                                                         *)
(*   - the job queue of src/src/index.js (addToQueue, startProcessors,     *)
(*     processQueue), one action per event-loop turn;                      *)
(*   - the decode cascade of src/src/controllers/fileController.js         *)
(*     (scanQRCode, extractFromPDF), one action per awaited attempt.       *)
(*                                                                         *)
(* index.js holds two copies of the server; the queue code of both has the *)
(* same control flow.  The model follows the second copy (lines 204-405),  *)
(* whose pool bound is 2; the first copy (lines 1-202) differs in its log  *)
(* texts and in its bound of 10.                                           *)
(***************************************************************************)
EXTENDS Integers, Sequences, FiniteSets, TLC

(***************************************************************************)
(* Bounds of the model and constants of the program.                       *)
(***************************************************************************)
\* Number of addToQueue calls explored by Spec.
MaxJobs == 3

\* Number of back-to-back addToQueue calls of the burst scenario (SpecBurst).
BurstJobs == 5

\* const MAX_CONCURRENT_PROCESSORS = 2
MAX_CONCURRENT_PROCESSORS == 2

\* Item and board references a webhook event may carry.
Items == {"item1", "item2"}
Boards == {"board1"}

\* Identities of processQueue invocations that may be live at once: one more
\* than the pool bound, so that an over-filled pool is a state of the model.
Procs == 1..(MAX_CONCURRENT_PROCESSORS + 1)

VARIABLES
  processingQueue,   \* let processingQueue = []: entries {itemId, boardId}
  activeProcessors,  \* let activeProcessors = 0
  procs,             \* the live processQueue invocations and where each is suspended
  enqueued,          \* the (itemId, boardId) pairs passed to addToQueue, in call order
  started,           \* entries dequeued so far, in dequeue order ("Processing item" log)
  finished,          \* terminal outcome of each job, in order of report
  spawned,           \* processQueue invocations so far ("Starting processor" log)
  exited,            \* finally blocks of processQueue run so far ("Processor finished" log)
  restarts,          \* finally blocks that went on to startProcessors ("Restarting processor" log)
  doc,               \* the document handed to extractData
  xpc,               \* the await at which the extraction of doc is suspended
  src,               \* the raster being scanned: 0 the image itself, k the k-th render scale
  strat,             \* position of the cascade in its strategy order
  attempts,          \* the tryStrategy calls made so far, in order
  renders,           \* the page renders made so far, in order
  qrData,            \* what the last scanQRCode call returned
  result,            \* the record extractData returns
  item,              \* what the board holds for the job's item, and what the network does
  jpc,               \* the await at which processItemExtraction is suspended
  qpc,               \* the await at which the executeQuery call in progress is suspended
  retries,           \* the parameter `retries` of the executeQuery invocation in progress
  posts,             \* the POST attempts of the last executeQuery call, in order
  calls,             \* the controller calls made by processItemExtraction, in order
  sink,              \* the column values passed to the update mutation, one per updateMondayBoard call
  files,             \* the files in uploads/: the download of the job and the rasters of its PDF
  assetUrlCache,     \* this.assetUrlCache = new Map(): cacheKey -> { url, timestamp }
  now,               \* the last value Date.now() returned
  lookups,           \* the getAssetUrl calls suspended at await this.executeQuery
  answers            \* the getAssetUrl calls that have settled, in order

qvars == <<processingQueue, activeProcessors, procs, enqueued, started,
           finished, spawned, exited, restarts>>

xvars == <<doc, xpc, src, strat, attempts, renders, qrData, result>>

jvars == <<item, jpc, qpc, retries, posts, calls, sink, files>>

cvars == <<assetUrlCache, now, lookups, answers>>

vars == <<processingQueue, activeProcessors, procs, enqueued, started,
          finished, spawned, exited, restarts,
          doc, xpc, src, strat, attempts, renders, qrData, result,
          item, jpc, qpc, retries, posts, calls, sink, files,
          assetUrlCache, now, lookups, answers>>

(***************************************************************************)
(* Helpers.                                                                *)
(***************************************************************************)
\* JavaScript's null.
NULL == "null"

\* The value of doc while extractData has not been called.
NoDoc == [kind |-> "none"]

Min(a, b) == IF a < b THEN a ELSE b

Range(s) == {s[i] : i \in 1..Len(s)}

\* A slot of procs that holds no live invocation.
\* pc: "job" is the await of processItemExtraction, "delay" the await of the
\* timer.  job is the entry taken by the last shift() of the invocation, and
\* prev the id of the entry it took before that one (0: none).
NoJob == [itemId |-> "", boardId |-> "", id |-> 0]

NoProc == [pc |-> "none", job |-> NoJob, prev |-> 0]

\* The slot a new processQueue invocation is given: the least free one.
FreeSlot(st) == CHOOSE w \in Procs :
                  /\ st.procs[w].pc = "none"
                  /\ \A v \in Procs : st.procs[v].pc = "none" => w <= v

\* The shared state the queue functions read and write, as one record.
QueueState == [queue    |-> processingQueue,
               active   |-> activeProcessors,
               procs    |-> procs,
               started  |-> started,
               spawned  |-> spawned,
               exited   |-> exited,
               restarts |-> restarts]

(***************************************************************************)
(* startProcessors / processQueue: the synchronous parts.                  *)
(*                                                                         *)
(* processQueue is an async function: a call runs synchronously up to its  *)
(* first await.  From the loop head that is either the dequeue of one      *)
(* entry followed by the call of processItemExtraction (which suspends at  *)
(* its first API call), or, on an empty queue, the break and the finally   *)
(* block.                                                                  *)
(***************************************************************************)
RECURSIVE startProcessors(_)

\* Variant: the finally block never restarts processors.
RestartWanted_Never(st) == FALSE

\* The restart test of the finally block.
RestartWanted(st) ==
  Len(st.queue) > 0 /\ st.active < MAX_CONCURRENT_PROCESSORS

\* Variant: an invocation that ends on an empty queue leaves the count as
\* it is.
FinallyBlock_NoDecrementWhenIdle(st, w) ==
  LET s1 == [st EXCEPT !.active = IF Len(st.queue) = 0 THEN @ ELSE @ - 1,
                       !.procs[w] = NoProc,
                       !.exited = @ + 1]
  IN  IF RestartWanted(s1)
        THEN startProcessors([s1 EXCEPT !.restarts = @ + 1])
        ELSE s1

\* Variant: the restart is decided on the count read before the decrement.
FinallyBlock_StaleCount(st, w) ==
  LET s1 == [st EXCEPT !.active = @ - 1,
                       !.procs[w] = NoProc,
                       !.exited = @ + 1]
  IN  IF Len(st.queue) > 0 /\ st.active < MAX_CONCURRENT_PROCESSORS
        THEN startProcessors([s1 EXCEPT !.restarts = @ + 1])
        ELSE s1

\* finally { activeProcessors--; if (...) startProcessors(); }
FinallyBlock(st, w) ==
  LET s1 == [st EXCEPT !.active = @ - 1,
                       !.procs[w] = NoProc,
                       !.exited = @ + 1]
  IN  IF RestartWanted(s1)
        THEN startProcessors([s1 EXCEPT !.restarts = @ + 1])
        ELSE s1

\* Variant: the entry taken is the newest one (pop() instead of shift()).
Dequeue_Pop(st, w) ==
  [st EXCEPT !.queue = SubSeq(@, 1, Len(@) - 1),
             !.procs[w] = [pc |-> "job", job |-> st.queue[Len(st.queue)],
                           prev |-> st.procs[w].job.id],
             !.started = Append(@, st.queue[Len(st.queue)].id)]

\* const {itemId, boardId} = processingQueue.shift(); ... await processItemExtraction
Dequeue(st, w) ==
  [st EXCEPT !.queue = Tail(@),
             !.procs[w] = [pc |-> "job", job |-> Head(st.queue),
                           prev |-> st.procs[w].job.id],
             !.started = Append(@, Head(st.queue).id)]

\* Variant: an invocation processes one entry and then ends, leaving the
\* backlog to the processors its finally block starts.
LoopHead_OneJobPerProcessor(st, w) ==
  IF Len(st.queue) = 0 \/ st.procs[w].job.id # 0
    THEN FinallyBlock(st, w)
    ELSE Dequeue(st, w)

\* The loop head of processQueue, run by invocation w.
LoopHead(st, w) ==
  IF Len(st.queue) = 0
    THEN FinallyBlock(st, w)
    ELSE Dequeue(st, w)

\* Variant: the bound is compared with <= instead of <.
HasCapacity_OffByOne(st) ==
  st.active <= MAX_CONCURRENT_PROCESSORS /\ Len(st.queue) > 0

\* Variant: the pool bound is not part of the loop condition.
HasCapacity_QueueOnly(st) == Len(st.queue) > 0

\* The loop condition of startProcessors.
HasCapacity(st) ==
  st.active < MAX_CONCURRENT_PROCESSORS /\ Len(st.queue) > 0

startProcessors(st) ==
  IF HasCapacity(st)
    THEN LET w  == FreeSlot(st)
             s1 == [st EXCEPT !.active = @ + 1, !.spawned = @ + 1]
         IN  startProcessors(LoopHead(s1, w))
    ELSE st

\* Writes a queue-state record back to the variables.
Store(st) ==
  /\ processingQueue' = st.queue
  /\ activeProcessors' = st.active
  /\ procs' = st.procs
  /\ started' = st.started
  /\ spawned' = st.spawned
  /\ exited' = st.exited
  /\ restarts' = st.restarts

(***************************************************************************)
(* Actions of the queue: one per event-loop turn.                          *)
(***************************************************************************)
\* Variant: a trigger for a pair that is already queued or in flight is dropped.
Push_Dedup(st, itemId, boardId) ==
  IF \/ \E k \in 1..Len(st.queue) :
          st.queue[k].itemId = itemId /\ st.queue[k].boardId = boardId
     \/ \E w \in Procs :
          /\ st.procs[w].pc = "job"
          /\ st.procs[w].job.itemId = itemId
          /\ st.procs[w].job.boardId = boardId
    THEN st
    ELSE [st EXCEPT !.queue = Append(@, [itemId |-> itemId, boardId |-> boardId,
                                         id |-> Len(enqueued) + 1])]

\* processingQueue.push({itemId, boardId}); startProcessors();
Push(st, itemId, boardId) ==
  [st EXCEPT !.queue = Append(@, [itemId |-> itemId, boardId |-> boardId,
                                  id |-> Len(enqueued) + 1])]

addToQueue(itemId, boardId) ==
  /\ Store(startProcessors(Push(QueueState, itemId, boardId)))
  /\ enqueued' = Append(enqueued, <<itemId, boardId>>)
  /\ UNCHANGED <<finished, xvars, jvars, cvars>>

\* The webhook handler receives a trigger event.
Webhook ==
  /\ Len(enqueued) < MaxJobs
  /\ \E itemId \in Items, boardId \in Boards : addToQueue(itemId, boardId)

\* The outcome reported for a job.
Report(w, outcome) == Append(finished, [id |-> procs[w].job.id, outcome |-> outcome])

\* await processItemExtraction(...) resolves: "Completed item", then the delay.
JobCompleted(w) ==
  /\ procs[w].pc = "job"
  /\ procs' = [procs EXCEPT ![w].pc = "delay"]
  /\ finished' = Report(w, "completed")
  /\ UNCHANGED <<processingQueue, activeProcessors, enqueued, started,
                 spawned, exited, restarts, xvars, jvars, cvars>>

\* Variant: the per-job catch throws the error on, which ends the invocation.
JobFailedResult_Rethrow(w) ==
  /\ Store(FinallyBlock(QueueState, w))
  /\ finished' = Report(w, "failed")

\* Variant: the per-job catch puts the failed entry back into the queue.
JobFailedResult_Requeue(w) ==
  /\ procs' = [procs EXCEPT ![w].pc = "delay"]
  /\ finished' = Report(w, "failed")
  /\ processingQueue' = Append(processingQueue, procs[w].job)
  /\ UNCHANGED <<activeProcessors, started, spawned, exited, restarts>>

\* Variant: the per-job catch goes back to the loop head without the delay.
JobFailedResult_NoDelay(w) ==
  /\ Store(LoopHead(QueueState, w))
  /\ finished' = Report(w, "failed")

\* await processItemExtraction(...) rejects with an Error: the per-job catch
\* logs "Failed to process item", then the delay.
JobFailedResult(w) ==
  /\ procs' = [procs EXCEPT ![w].pc = "delay"]
  /\ finished' = Report(w, "failed")
  /\ UNCHANGED <<processingQueue, activeProcessors, started, spawned, exited,
                 restarts>>

JobFailed(w) ==
  /\ procs[w].pc = "job"
  /\ JobFailedResult(w)
  /\ UNCHANGED <<enqueued, xvars, jvars, cvars>>

\* An unexpected failure of the worker itself: await processItemExtraction(...)
\* rejects with a value that has no message (null or undefined).
\* processItemExtraction has logged the error and thrown it again, the
\* per-job catch throws at error.message, and the exception reaches
\* catch (processorError) and the finally block.  (In the first copy of the
\* server processItemExtraction reads error.message itself, so what it
\* rejects with is always an Error and this path is closed.)
ProcessorCrashed(w) ==
  /\ procs[w].pc = "job"
  /\ Store(FinallyBlock(QueueState, w))
  /\ finished' = Report(w, "crashed")
  /\ UNCHANGED <<enqueued, xvars, jvars, cvars>>

\* The 500 ms timer fires: back to the loop head.
DelayElapsed(w) ==
  /\ procs[w].pc = "delay"
  /\ Store(LoopHead(QueueState, w))
  /\ UNCHANGED <<enqueued, finished, xvars, jvars, cvars>>

\* this.CACHE_TTL = 60 * 60 * 1000, in milliseconds.
CACHE_TTL == 60 * 60 * 1000

\* assetUrlCache.get(cacheKey) of a key that is not in the map.
NoEntry == [type |-> "undefined"]

\* No getAssetUrl call is suspended in this worker.
NoLookup == [assetId |-> "", called |-> 0, cached |-> NoEntry]

\* The asset ids looked up, as cache keys, and the public URLs the API gives
\* for them.
AssetIds == {"101", "102"}
PublicUrls == {"https://files/1", "https://files/2"}

\* The jobs whose getAssetUrl calls can overlap: one per worker.
Lookers == 1..MAX_CONCURRENT_PROCESSORS

\* The controller after its constructor has run.
InitCache ==
  /\ assetUrlCache = [a \in AssetIds |-> NoEntry]
  /\ now = 0
  /\ lookups = [c \in Lookers |-> NoLookup]
  /\ answers = <<>>

\* The queue after the module has loaded.
InitQueue ==
  /\ processingQueue = <<>>
  /\ activeProcessors = 0
  /\ procs = [w \in Procs |-> NoProc]
  /\ enqueued = <<>>
  /\ started = <<>>
  /\ finished = <<>>
  /\ spawned = 0
  /\ exited = 0
  /\ restarts = 0

\* No extraction is under way.
NoExtraction ==
  /\ doc = NoDoc
  /\ xpc = "idle"
  /\ src = 0
  /\ strat = 0
  /\ attempts = <<>>
  /\ renders = <<>>
  /\ qrData = NULL
  /\ result = NULL

\* processItemExtraction has not been called.
NoItem == [listing |-> "none"]

NoJobRun ==
  /\ item = NoItem
  /\ jpc = "idle"
  /\ qpc = "none"
  /\ retries = 0
  /\ posts = <<>>
  /\ calls = <<>>
  /\ sink = <<>>
  /\ files = {}

Init == InitQueue /\ NoExtraction /\ NoJobRun /\ InitCache

Next ==
  \/ Webhook
  \/ \E w \in Procs : JobCompleted(w)
  \/ \E w \in Procs : JobFailed(w)
  \/ \E w \in Procs : ProcessorCrashed(w)
  \/ \E w \in Procs : DelayElapsed(w)

Spec == Init /\ [][Next]_vars

\* Every awaited call of a job returns or fails, and every timer fires.
Fairness ==
  \A w \in Procs :
    /\ WF_vars(JobCompleted(w) \/ JobFailed(w) \/ ProcessorCrashed(w))
    /\ WF_vars(DelayElapsed(w))

FairSpec == Spec /\ Fairness

(***************************************************************************)
(* The decode cascade: extractData on an image or a PDF.                   *)
(*                                                                         *)
(* A document is described by what the libraries do with it:               *)
(*   loads      Jimp.read of the image succeeds / pdfjs loads the file;    *)
(*   width, height   pixels of the image, or points of the first page;     *)
(*   renderFails     the render scales at which page.render rejects;       *)
(*   marks[k][name]  what tryStrategy `name` meets on raster k (0 the      *)
(*                   image, k the page at the k-th scale): "code" when     *)
(*                   tryQRScan finds the code on the processed raster,     *)
(*                   "throw" when Jimp.read, the processing or jsQR        *)
(*                   throws, else "none";                                  *)
(*   decoders   what each engine of tryQRScan returns on a processed       *)
(*              raster marked "code": "code" (the payload), "none" (null   *)
(*              or an empty text) or "throw"; at least one returns the     *)
(*              payload;                                                   *)
(*   payload    the text of the code.                                      *)
(***************************************************************************)
\* const scales = [4.0, 3.5, 3.0, 2.5, 2.0], in tenths.
scales == <<40, 35, 30, 25, 20>>

\* Strategies 1 to 8.
FirstStrategies ==
  <<"original", "greyscale-contrast", "normalize-contrast", "invert",
    "brightness", "posterize", "blur", "normalize-only">>

\* Strategy 9: for (const scale of [1600, 1200, 800]).
DownscaleStrategies == <<"scale-1600", "scale-1200", "scale-800">>

\* Strategies 10 to 15.
LastStrategies ==
  <<"posterize-aggressive", "bright-normalize", "dark-contrast",
    "posterize-first", "double-contrast", "invert-normalize">>

StrategyNames == Range(FirstStrategies \o DownscaleStrategies \o LastStrategies)

\* if (originalWidth > 2000 || originalHeight > 2000)
DownscaleThreshold == 2000

\* Variant: a raster is oversized only when both sides exceed the threshold.
IsOversized_BothSides(width, height) ==
  width > DownscaleThreshold /\ height > DownscaleThreshold

IsOversized(width, height) ==
  width > DownscaleThreshold \/ height > DownscaleThreshold

\* for (const scale of [1600, 1200, 800]): the size of each downscale step.
DownscaleSize ==
  [name \in Range(DownscaleStrategies) |->
     CASE name = "scale-1600" -> 1600
       [] name = "scale-1200" -> 1200
       [] name = "scale-800"  -> 800]

\* The size of a raster after a downscale step: the width is set when the
\* raster is wider than high, the height otherwise, and the other side keeps
\* the proportion (Jimp.AUTO), rounded.
Downscaled(width, height, scale) ==
  IF width > height
    THEN <<scale, (2 * height * scale + width) \div (2 * width)>>
    ELSE <<(2 * width * scale + height) \div (2 * height), scale>>

\* Variant: the downscale steps are the last resort.
StrategyOrder_DownscaleLast(width, height) ==
  FirstStrategies
    \o LastStrategies
    \o (IF IsOversized(width, height) THEN DownscaleStrategies ELSE <<>>)

\* The tryStrategy calls of scanQRCode on a raster of the given size, in the
\* order of the source text.
StrategyOrder(width, height) ==
  FirstStrategies
    \o (IF IsOversized(width, height) THEN DownscaleStrategies ELSE <<>>)
    \o LastStrategies

\* Size of raster k of document d: the image itself, or the viewport of the
\* page at scale k (page.getViewport({scale})).
RasterWidth(d, k) == IF k = 0 THEN d.width ELSE (d.width * scales[k]) \div 10

RasterHeight(d, k) == IF k = 0 THEN d.height ELSE (d.height * scales[k]) \div 10

RasterOrder(d, k) == StrategyOrder(RasterWidth(d, k), RasterHeight(d, k))

\* Variant: a found code does not end the cascade.
CodeFound_Ignored(outcome) == FALSE

\* if (code) return code;
CodeFound(outcome) == outcome = "code"

\* The engines of tryQRScan, in the order of the source text: jsQR, then
\* ZXing's reader on a HybridBinarizer, then on a GlobalHistogramBinarizer.
Engines == <<"jsQR", "HybridBinarizer", "GlobalHistogramBinarizer">>

\* The engines on a processed raster that does not show the code: jsQR
\* returns null, reader.decode throws NotFoundException.
Unseen ==
  [jsQR |-> "none", HybridBinarizer |-> "throw",
   GlobalHistogramBinarizer |-> "throw"]

\* jsQR(..., { inversionAttempts: 'attemptBoth' })
inversionAttempts == "attemptBoth"

\* The polarities in which an engine looks for the code: jsQR as its option
\* says, the ZXing reader (decode without hints) as the raster is.
Polarities(engine) ==
  IF engine = "jsQR" /\ inversionAttempts = "attemptBoth"
    THEN <<"normal", "inverted">>
    ELSE <<"normal">>

\* One engine run on a raster on which the engines behave as `seen`.
EngineRun(seen, engine) ==
  [engine |-> engine, polarities |-> Polarities(engine),
   outcome |-> seen[engine]]

\* Variant: no fallback to the GlobalHistogramBinarizer.
tryQRScan_NoHistogram(seen) ==
  LET run(e) == EngineRun(seen, e)
  IN  IF seen["jsQR"] = "code"
        THEN <<run("jsQR")>>
        ELSE <<run("jsQR"), run("HybridBinarizer")>>

\* Variant: the GlobalHistogramBinarizer before the HybridBinarizer.
tryQRScan_HistogramFirst(seen) ==
  LET run(e) == EngineRun(seen, e)
  IN  IF seen["jsQR"] = "code"
        THEN <<run("jsQR")>>
        ELSE IF seen["GlobalHistogramBinarizer"] = "code"
               THEN <<run("jsQR"), run("GlobalHistogramBinarizer")>>
               ELSE <<run("jsQR"), run("GlobalHistogramBinarizer"),
                      run("HybridBinarizer")>>

\* tryQRScan: the engines run on a raster on which they behave as `seen`.
\* An engine that returns the payload ends the function; a ZXing reader that
\* throws, or returns no text, leaves the next engine to run.
tryQRScan(seen) ==
  LET run(e) == EngineRun(seen, e)
  IN  IF seen["jsQR"] = "code"
        THEN <<run("jsQR")>>
        ELSE IF seen["HybridBinarizer"] = "code"
               THEN <<run("jsQR"), run("HybridBinarizer")>>
               ELSE <<run("jsQR"), run("HybridBinarizer"),
                      run("GlobalHistogramBinarizer")>>

\* The value tryQRScan returns after these runs is the payload, not null.
Decoded(runs) == runs # <<>> /\ runs[Len(runs)].outcome = "code"

\* Variant: a failed scale ends the loop over the scales.
NextScale_AbortOnFailure(k, failed) ==
  IF failed THEN Len(scales) + 1 ELSE k + 1

\* for (const scale of scales): the scale tried after the k-th.
NextScale(k, failed) == k + 1

(***************************************************************************)
(* Strings and regular expressions, as the parsers use them.               *)
(*                                                                         *)
(* A regular expression is a tree of nodes; Match gives the ways a node    *)
(* can match at a position, in the order in which a backtracking matcher   *)
(* tries them, so that the first element is the match JavaScript reports.  *)
(* The texts explored are ASCII: the alternatives and the class members    *)
(* outside ASCII of the source patterns (the euro and pound signs, the     *)
(* accented letters) are left out of the patterns, no input containing     *)
(* them.                                                                   *)
(***************************************************************************)
UpperCaseLetters == "ABCDEFGHIJKLMNOPQRSTUVWXYZ"

LowerCaseLetters == "abcdefghijklmnopqrstuvwxyz"

CharsOf(str) == {SubSeq(str, i, i) : i \in 1..Len(str)}

Digit == CharsOf("0123456789")

Upper == CharsOf(UpperCaseLetters)

Lower == CharsOf(LowerCaseLetters)

\* \s, for the white space that occurs in the texts.
WhiteSpace == {" ", "\n", "\t"}

\* The letter at the same place of the other alphabet, or the character.
Recase(c, from, to) ==
  IF c \in CharsOf(from)
    THEN LET i == CHOOSE k \in 1..Len(from) : SubSeq(from, k, k) = c
         IN  SubSeq(to, i, i)
    ELSE c

RECURSIVE MapChars(_, _, _)
MapChars(str, from, to) ==
  IF str = "" THEN ""
  ELSE Recase(Head(str), from, to) \o MapChars(Tail(str), from, to)

\* String.prototype.toLowerCase
toLowerCase(str) == MapChars(str, UpperCaseLetters, LowerCaseLetters)

\* String.prototype.toUpperCase
toUpperCase(str) == MapChars(str, LowerCaseLetters, UpperCaseLetters)

\* String.prototype.trim
RECURSIVE trim(_)
trim(str) ==
  IF str = "" THEN ""
  ELSE IF Head(str) \in WhiteSpace THEN trim(Tail(str))
  ELSE IF SubSeq(str, Len(str), Len(str)) \in WhiteSpace
         THEN trim(SubSeq(str, 1, Len(str) - 1))
  ELSE str

\* String.prototype.indexOf from position i (1-based); 0 when absent.
RECURSIVE IndexFrom(_, _, _)
IndexFrom(str, sub, i) ==
  IF i + Len(sub) - 1 > Len(str) THEN 0
  ELSE IF SubSeq(str, i, i + Len(sub) - 1) = sub THEN i
  ELSE IndexFrom(str, sub, i + 1)

\* String.prototype.lastIndexOf of a character (1-based); 0 when absent.
RECURSIVE lastIndexOf(_, _)
lastIndexOf(str, c) ==
  IF str = "" THEN 0
  ELSE IF SubSeq(str, Len(str), Len(str)) = c THEN Len(str)
  ELSE lastIndexOf(SubSeq(str, 1, Len(str) - 1), c)

\* String.prototype.split on a non-empty separator.
RECURSIVE split(_, _)
split(str, sep) ==
  LET i == IndexFrom(str, sep, 1)
  IN  IF i = 0 THEN <<str>>
      ELSE <<SubSeq(str, 1, i - 1)>>
             \o split(SubSeq(str, i + Len(sep), Len(str)), sep)

\* String.prototype.replace(sub, by) with a string pattern: the first
\* occurrence only.
replace(str, sub, by) ==
  LET i == IndexFrom(str, sub, 1)
  IN  IF i = 0 THEN str
      ELSE SubSeq(str, 1, i - 1) \o by \o SubSeq(str, i + Len(sub), Len(str))

\* String.prototype.replace with a global one-character pattern.
RECURSIVE replaceAll(_, _, _)
replaceAll(str, c, by) ==
  IF str = "" THEN ""
  ELSE (IF Head(str) = c THEN by ELSE Head(str)) \o replaceAll(Tail(str), c, by)

\* text.replace(/\s+/g, ' ')
RECURSIVE CollapseWhiteSpace(_)
CollapseWhiteSpace(str) ==
  IF str = "" THEN ""
  ELSE IF Head(str) \in WhiteSpace
         THEN IF Len(str) > 1 /\ SubSeq(str, 2, 2) \in WhiteSpace
                THEN CollapseWhiteSpace(Tail(str))
                ELSE " " \o CollapseWhiteSpace(Tail(str))
  ELSE Head(str) \o CollapseWhiteSpace(Tail(str))

\* The nodes of a regular expression.
Lit(str) == [node |-> "lit", str |-> str]

\* Between min and max characters of the class, max < 0 for no limit.
Rep(class, min, max) == [node |-> "rep", class |-> class, min |-> min,
                         max |-> max, lazy |-> FALSE]

LazyRep(class, min, max) == [node |-> "rep", class |-> class, min |-> min,
                             max |-> max, lazy |-> TRUE]

Alt(rs) == [node |-> "alt", rs |-> rs]

Cat(rs) == [node |-> "cat", rs |-> rs]

\* (...)? : the group or nothing, the group first.
Opt(r) == Alt(<<r, Cat(<<>>)>>)

\* The n-th capturing group.
Cap(n, r) == [node |-> "cap", n |-> n, r |-> r]

\* (?=...)
Ahead(r) == [node |-> "ahead", r |-> r]

\* ^ and $
Bol == [node |-> "bol"]

Eol == [node |-> "eol"]

\* A group that did not take part in the match.
NoCapture == [set |-> FALSE]

Captured(str) == [set |-> TRUE, str |-> str]

\* The flags i and m of a pattern.
Flags(i, m) == [i |-> i, m |-> m]

\* The character at position p is in the class, under the flags.
InClass(str, p, class, flags) ==
  LET c == SubSeq(str, p, p)
  IN  \/ c \in class
      \/ /\ flags.i
         /\ \/ Recase(c, UpperCaseLetters, LowerCaseLetters) \in class
            \/ Recase(c, LowerCaseLetters, UpperCaseLetters) \in class

\* The number of characters of the class from position p on, up to max.
RECURSIVE Run(_, _, _, _, _)
Run(str, p, class, max, flags) ==
  IF p > Len(str) \/ max = 0 \/ ~InClass(str, p, class, flags) THEN 0
  ELSE 1 + Run(str, p + 1, class, max - 1, flags)

\* The ways node r matches str from position p with the groups caps, in the
\* order of a backtracking matcher: each is the position after the match and
\* the groups.
RECURSIVE Match(_, _, _, _, _), MatchAll(_, _, _, _, _, _),
          MatchAny(_, _, _, _, _, _), Continue(_, _, _, _, _, _)
Match(r, str, p, caps, flags) ==
  CASE r.node = "lit" ->
         LET q   == p + Len(r.str)
             sub == SubSeq(str, p, q - 1)
         IN  IF q - 1 <= Len(str)
                  /\ \/ sub = r.str
                     \/ flags.i /\ toLowerCase(sub) = toLowerCase(r.str)
               THEN <<[pos |-> q, caps |-> caps]>>
               ELSE <<>>
    [] r.node = "rep" ->
         LET n == Run(str, p, r.class, r.max, flags)
         IN  IF n < r.min THEN <<>>
             ELSE [k \in 1..(n - r.min + 1) |->
                     [pos  |-> IF r.lazy THEN p + r.min + k - 1 ELSE p + n - k + 1,
                      caps |-> caps]]
    [] r.node = "alt" -> MatchAny(r.rs, 1, str, p, caps, flags)
    [] r.node = "cat" -> MatchAll(r.rs, 1, str, p, caps, flags)
    [] r.node = "cap" ->
         LET ms == Match(r.r, str, p, caps, flags)
         IN  [k \in 1..Len(ms) |->
                [pos  |-> ms[k].pos,
                 caps |-> [ms[k].caps EXCEPT
                             ![r.n] = Captured(SubSeq(str, p, ms[k].pos - 1))]]]
    [] r.node = "ahead" ->
         IF Match(r.r, str, p, caps, flags) # <<>>
           THEN <<[pos |-> p, caps |-> caps]>>
           ELSE <<>>
    [] r.node = "bol" ->
         IF p = 1 \/ (flags.m /\ SubSeq(str, p - 1, p - 1) = "\n")
           THEN <<[pos |-> p, caps |-> caps]>>
           ELSE <<>>
    [] r.node = "eol" ->
         IF p = Len(str) + 1 \/ (flags.m /\ SubSeq(str, p, p) = "\n")
           THEN <<[pos |-> p, caps |-> caps]>>
           ELSE <<>>

\* The alternatives rs[k..], in order.
MatchAny(rs, k, str, p, caps, flags) ==
  IF k > Len(rs) THEN <<>>
  ELSE Match(rs[k], str, p, caps, flags)
         \o MatchAny(rs, k + 1, str, p, caps, flags)

\* The nodes rs[k..] one after the other.
MatchAll(rs, k, str, p, caps, flags) ==
  IF k > Len(rs) THEN <<[pos |-> p, caps |-> caps]>>
  ELSE Continue(Match(rs[k], str, p, caps, flags), rs, k + 1, str, 1, flags)

\* The nodes rs[k..] after each of the matches ms[j..] of the node before.
Continue(ms, rs, k, str, j, flags) ==
  IF j > Len(ms) THEN <<>>
  ELSE MatchAll(rs, k, str, ms[j].pos, ms[j].caps, flags)
         \o Continue(ms, rs, k, str, j + 1, flags)

\* No pattern of the source has more than two groups.
NoCaptures == <<NoCapture, NoCapture>>

NoMatch == [found |-> FALSE]

\* String.prototype.match with a pattern without the g flag: the leftmost
\* position at which the pattern matches, and its groups.
RECURSIVE MatchFrom(_, _, _, _)
MatchFrom(str, r, flags, p) ==
  IF p > Len(str) + 1 THEN NoMatch
  ELSE LET ms == Match(r, str, p, NoCaptures, flags)
       IN  IF ms # <<>>
             THEN [found |-> TRUE, index |-> p, end |-> ms[1].pos,
                   groups |-> ms[1].caps]
             ELSE MatchFrom(str, r, flags, p + 1)

match(str, r, flags) == MatchFrom(str, r, flags, 1)

\* The values of the fields of an extraction record: null, a property that
\* is not there, a number (a decimal fraction num / den in lowest terms of
\* ten), NaN, a string.
JsNull == [type |-> "null"]

JsUndefined == [type |-> "undefined"]

NaN == [type |-> "NaN"]

RECURSIVE Decimal(_, _)
Decimal(num, den) ==
  IF den > 1 /\ num % 10 = 0
    THEN Decimal(num \div 10, den \div 10)
    ELSE [type |-> "number", num |-> num, den |-> den]

JsNumber(hundredths) == Decimal(hundredths, 100)

JsString(val) == [type |-> "string", val |-> val]

\* The value counts as true in a condition.
Truthy(v) ==
  \/ v.type = "string" /\ v.val # ""
  \/ v.type = "number" /\ v.num # 0

RECURSIVE PowerOfTen(_)
PowerOfTen(n) == IF n = 0 THEN 1 ELSE 10 * PowerOfTen(n - 1)

\* The number a string of digits denotes, 0 for the empty string.
RECURSIVE DigitsValue(_)
DigitsValue(str) ==
  IF str = "" THEN 0
  ELSE 10 * DigitsValue(SubSeq(str, 1, Len(str) - 1))
         + (CHOOSE d \in 0..9 :
              SubSeq("0123456789", d + 1, d + 1) = SubSeq(str, Len(str), Len(str)))

\* Variant: no digits are read after the decimal point.
parseFloat_Integer(str) ==
  LET n == Run(str, 1, Digit, -1, Flags(FALSE, FALSE))
  IN  IF n = 0 THEN NaN ELSE Decimal(DigitsValue(SubSeq(str, 1, n)), 1)

\* parseFloat: the longest prefix, after leading white space, that is a
\* decimal literal; NaN when there is none.  No text explored has an
\* exponent or the word Infinity.
parseFloat(str) ==
  LET lead     == Run(str, 1, WhiteSpace, -1, Flags(FALSE, FALSE))
      signed   == lead < Len(str) /\ SubSeq(str, lead + 1, lead + 1) \in {"+", "-"}
      negative == signed /\ SubSeq(str, lead + 1, lead + 1) = "-"
      from     == lead + (IF signed THEN 2 ELSE 1)
      ni       == Run(str, from, Digit, -1, Flags(FALSE, FALSE))
      point    == from + ni <= Len(str) /\ SubSeq(str, from + ni, from + ni) = "."
      nf       == IF point THEN Run(str, from + ni + 1, Digit, -1, Flags(FALSE, FALSE))
                           ELSE 0
      whole    == DigitsValue(SubSeq(str, from, from + ni - 1))
      fraction == DigitsValue(SubSeq(str, from + ni + 1, from + ni + nf))
      num      == whole * PowerOfTen(nf) + fraction
  IN  IF ni + nf = 0 THEN NaN
      ELSE Decimal(IF negative THEN -num ELSE num, PowerOfTen(nf))

\* Variant: the number read is kept without the test.
IsPositive_Unchecked(v) == TRUE

\* !isNaN(v) && v > 0
IsPositive(v) == v.type = "number" /\ v.num > 0

\* [A-Z0-9\/\-]
InvoiceIdClass == Upper \cup Digit \cup {"/", "-"}

\* \s* and \s+
Spaces(min) == Rep(WhiteSpace, min, -1)

\* /(FT[A]?|FR|FA)\s+([A-Z0-9\/\-]+)/i
PortugueseInvoicePattern ==
  Cat(<<Cap(1, Alt(<<Cat(<<Lit("FT"), Rep({"A"}, 0, 1)>>), Lit("FR"), Lit("FA")>>)),
        Spaces(1),
        Cap(2, Rep(InvoiceIdClass, 1, -1))>>)

\* /(\d+[.,]\d{2})/
TwoDecimalsPattern ==
  Cap(1, Cat(<<Rep(Digit, 1, -1), Rep({".", ","}, 1, 1), Rep(Digit, 2, 2)>>))

\* const invoiceData = { totalValue: null, currency: 'EUR', ... }
EmptyQRRecord ==
  [totalValue    |-> JsNull,
   currency      |-> JsString("EUR"),
   invoiceNumber |-> JsNull,
   invoiceDate   |-> JsNull,
   supplierName  |-> JsNull,
   customerNIF   |-> JsNull]

\* Variant: the value of a segment is everything after its first ':'.
KeyValue_FirstSeparator(field) ==
  LET i == IndexFrom(field, ":", 1)
  IN  IF i = 0 THEN [key |-> field, value |-> JsUndefined]
      ELSE [key   |-> SubSeq(field, 1, i - 1),
            value |-> JsString(SubSeq(field, i + 1, Len(field)))]

\* const [key, value] = field.split(':'): the first two parts of the split.
KeyValue(field) ==
  LET parts == split(field, ":")
  IN  [key   |-> parts[1],
       value |-> IF Len(parts) > 1 THEN JsString(parts[2]) ELSE JsUndefined]

\* Variant: only the first comma-free digits of the amount are read.
ReadAmount_NoComma(value) == parseFloat(value)

\* parseFloat(value.replace(',', '.'))
ReadAmount(value) == parseFloat(replace(value, ",", "."))

\* Variant: the date is kept as it is written.
ReadDate_Raw(value) == value

\* `${year}-${month}-${day}` of value.substring(0, 4), (4, 6), (6, 8)
ReadDate(value) ==
  SubSeq(value, 1, 4) \o "-" \o SubSeq(value, 5, 6) \o "-" \o SubSeq(value, 7, 8)

\* The body of fields.forEach for one segment.
ReadField(invoiceData, field) ==
  LET pair   == KeyValue(field)
      key    == pair.key
      value  == pair.value
      name   == trim(key)
      totalO == ReadAmount(value.val)
  IN  IF key = "" \/ ~Truthy(value) THEN invoiceData
      ELSE CASE name = "G" ->
                  [invoiceData EXCEPT !.invoiceNumber = JsString(trim(value.val))]
             [] name = "A" ->
                  [invoiceData EXCEPT !.customerNIF = JsString(trim(value.val))]
             [] name = "O" ->
                  IF IsPositive(totalO)
                    THEN [invoiceData EXCEPT !.totalValue = totalO]
                    ELSE invoiceData
             [] name = "F" ->
                  IF Len(value.val) = 8
                    THEN [invoiceData EXCEPT !.invoiceDate = JsString(ReadDate(value.val))]
                    ELSE invoiceData
             [] OTHER -> invoiceData

\* fields.forEach from the k-th segment on.
RECURSIVE ReadFields(_, _, _)
ReadFields(invoiceData, fields, k) ==
  IF k > Len(fields) THEN invoiceData
  ELSE ReadFields(ReadField(invoiceData, fields[k]), fields, k + 1)

\* Variant: the simple parsing runs whenever the total is missing.
NeedsSimpleParsing_TotalOnly(invoiceData) == ~Truthy(invoiceData.totalValue)

\* if (!invoiceData.totalValue && !invoiceData.invoiceNumber)
NeedsSimpleParsing(invoiceData) ==
  ~Truthy(invoiceData.totalValue) /\ ~Truthy(invoiceData.invoiceNumber)

\* The simple parsing of a payload that does not follow the format.
SimpleParsing(invoiceData, payload) ==
  LET invoiceMatch == match(payload, PortugueseInvoicePattern, Flags(TRUE, FALSE))
      totalMatch   == match(payload, TwoDecimalsPattern, Flags(FALSE, FALSE))
      total        == parseFloat(replace(totalMatch.groups[1].str, ",", "."))
  IN  [invoiceData EXCEPT
         !.invoiceNumber =
            IF invoiceMatch.found
              THEN JsString(trim(invoiceMatch.groups[1].str \o " "
                                   \o invoiceMatch.groups[2].str))
              ELSE @,
         !.totalValue =
            IF totalMatch.found /\ total.type = "number" THEN total ELSE @]

parseQRCodeData(payload) ==
  LET invoiceData == ReadFields(EmptyQRRecord, split(payload, "*"), 1)
  IN  IF NeedsSimpleParsing(invoiceData)
        THEN SimpleParsing(invoiceData, payload)
        ELSE invoiceData

\* A phrase whose words are separated by \s*.
RECURSIVE WordsFrom(_, _)
WordsFrom(words, k) ==
  IF k > Len(words) THEN <<>>
  ELSE (IF k = 1 THEN <<>> ELSE <<Spaces(0)>>) \o <<Lit(words[k])>>
         \o WordsFrom(words, k + 1)

Phrase(words) == Cat(WordsFrom(words, 1))

\* [\s:]*
SpacesOrColons == Rep(WhiteSpace \cup {":"}, 0, -1)

\* ([\d.]+,\d{2})
CommaAmount ==
  Cap(1, Cat(<<Rep(Digit \cup {"."}, 1, -1), Lit(","), Rep(Digit, 2, 2)>>))

\* ([\d,]+\.?\d{0,2})
DotAmount ==
  Cap(1, Cat(<<Rep(Digit \cup {","}, 1, -1), Rep({"."}, 0, 1), Rep(Digit, 0, 2)>>))

\* [\$€£R\$]?
CurrencySign == Rep({"$", "R"}, 0, 1)

\* const totalPatterns = [...], all with the flag i.
totalPatterns ==
  <<Cat(<<Alt(<<Lit("total"), Phrase(<<"total", "incidencias">>),
                Phrase(<<"valor", "total">>), Phrase(<<"total", "a", "pagar">>)>>),
          SpacesOrColons,
          Alt(<<Lit("eur"), Lit("usd"), Lit("$"), Lit("gbp")>>),
          Spaces(0), CommaAmount>>),
    Cat(<<Alt(<<Lit("eur"), Lit("usd"), Lit("$"), Lit("gbp"), Lit("r$")>>),
          Spaces(0), CommaAmount>>),
    Cat(<<Alt(<<Lit("total"), Phrase(<<"total", "a", "pagar">>),
                Phrase(<<"valor", "total">>), Lit("montante")>>),
          SpacesOrColons,
          Cap(1, Cat(<<Rep(Digit, 1, -1), Rep({".", ","}, 1, 1), Rep(Digit, 2, 2)>>))>>),
    Cat(<<Alt(<<Phrase(<<"a", "pagar">>), Lit("pagar")>>),
          SpacesOrColons, Opt(Lit("eur")), Spaces(0), CommaAmount>>),
    Cat(<<Alt(<<Phrase(<<"total", "amount", "due">>), Phrase(<<"amount", "due">>),
                Phrase(<<"balance", "due">>), Phrase(<<"final", "total">>)>>),
          SpacesOrColons, CurrencySign, Spaces(0), DotAmount>>),
    Cat(<<Phrase(<<"grand", "total">>),
          SpacesOrColons, CurrencySign, Spaces(0), DotAmount>>),
    Cat(<<Alt(<<Lit("total"), Phrase(<<"valor", "total">>),
                Phrase(<<"total", "geral">>)>>),
          SpacesOrColons, Lit("R"), Rep({"$"}, 0, 1), Spaces(0), CommaAmount>>),
    Cat(<<CommaAmount, Spaces(0),
          Alt(<<Lit("USD"), Lit("EUR"), Lit("BRL"), Lit("GBP"), Lit("Eur")>>)>>),
    Cat(<<Cap(1, Cat(<<Rep(Digit \cup {","}, 1, -1), Lit("."), Rep(Digit, 2, 2)>>)),
          Spaces(0),
          Alt(<<Lit("USD"), Lit("EUR"), Lit("BRL"), Lit("GBP")>>)>>),
    Cat(<<Cap(1, Cat(<<Rep(Digit, 1, 6), Rep({".", ","}, 1, 1), Rep(Digit, 2, 2)>>)),
          Ahead(Cat(<<Spaces(0),
                      Opt(Alt(<<Lit("eur"), Lit("usd"), Lit("$"), Lit("gbp")>>)),
                      Spaces(0), Eol>>))>>)>>

\* Variant: every matched amount is read in the US convention.
NormalizeAmount_DotOnly(value) == replaceAll(value, ",", "")

\* The decimal convention of a matched amount: a comma after the last point
\* is the decimal separator and the points are removed; otherwise the commas
\* are removed.
NormalizeAmount(value) ==
  IF lastIndexOf(value, ",") > 0 /\ lastIndexOf(value, ",") > lastIndexOf(value, ".")
    THEN replace(replaceAll(value, ".", ""), ",", ".")
    ELSE replaceAll(value, ",", "")

\* Variant: the patterns are tried from the k-th on and the last match wins.
RECURSIVE TotalFrom_LastMatch(_, _)
TotalFrom_LastMatch(cleanText, k) ==
  IF k > Len(totalPatterns) THEN JsNull
  ELSE LET m    == match(cleanText, totalPatterns[k], Flags(TRUE, FALSE))
           rest == TotalFrom_LastMatch(cleanText, k + 1)
       IN  IF rest = JsNull /\ m.found
                /\ IsPositive(parseFloat(NormalizeAmount(m.groups[1].str)))
             THEN parseFloat(NormalizeAmount(m.groups[1].str))
             ELSE rest

\* for (const pattern of totalPatterns), from the k-th pattern on: the first
\* pattern whose match is a positive number gives the total.
RECURSIVE TotalFrom(_, _)
TotalFrom(cleanText, k) ==
  IF k > Len(totalPatterns) THEN JsNull
  ELSE LET m == match(cleanText, totalPatterns[k], Flags(TRUE, FALSE))
       IN  IF m.found /\ IsPositive(parseFloat(NormalizeAmount(m.groups[1].str)))
             THEN parseFloat(NormalizeAmount(m.groups[1].str))
             ELSE TotalFrom(cleanText, k + 1)

\* /(\$|USD|€|EUR|Eur|£|GBP|R\$|BRL)/i
CurrencyPattern ==
  Cap(1, Alt(<<Lit("$"), Lit("USD"), Lit("EUR"), Lit("Eur"), Lit("GBP"),
               Lit("R$"), Lit("BRL")>>))

\* const currencyMap = {...}
currencyMap ==
  [c \in {"$", "USD", "EUR", "Eur", "GBP", "R$", "BRL"} |->
     CASE c \in {"$", "USD"} -> "USD"
       [] c \in {"EUR", "Eur"} -> "EUR"
       [] c = "GBP" -> "GBP"
       [] OTHER -> "BRL"]

Currency(cleanText) ==
  LET currencyMatch == match(cleanText, CurrencyPattern, Flags(TRUE, FALSE))
      sign          == currencyMatch.groups[1].str
  IN  IF ~currencyMatch.found THEN JsNull
      ELSE IF sign \in DOMAIN currencyMap THEN JsString(currencyMap[sign])
      ELSE JsString(toUpperCase(sign))

\* [A-Z0-9\-]
InvoiceNumberClass == Upper \cup Digit \cup {"-"}

\* [:\-]?
ColonOrDash == Rep({":", "-"}, 0, 1)

\* const invoiceNumberPatterns = [...], with their flags.
invoiceNumberPatterns ==
  <<[re |-> PortugueseInvoicePattern, flags |-> Flags(TRUE, FALSE)],
    [re |-> Cat(<<Alt(<<Lit("fatura-recibo"), Lit("fatura")>>), Spaces(0), Lit("n"),
                  ColonOrDash, Spaces(0), Cap(1, Rep(InvoiceIdClass, 1, -1))>>),
     flags |-> Flags(TRUE, FALSE)],
    [re |-> Cat(<<Phrase(<<"invoice", "number">>), Spaces(0), ColonOrDash, Spaces(0),
                  Cap(1, Rep(InvoiceNumberClass, 1, -1))>>),
     flags |-> Flags(TRUE, FALSE)],
    [re |-> Cat(<<Phrase(<<"invoice", "#">>), Spaces(0), ColonOrDash, Spaces(0),
                  Cap(1, Rep(InvoiceNumberClass, 1, -1))>>),
     flags |-> Flags(TRUE, FALSE)],
    [re |-> Cat(<<Lit("invoice"), Rep({":", "-"}, 1, 1), Spaces(0),
                  Cap(1, Rep(InvoiceNumberClass, 1, -1))>>),
     flags |-> Flags(TRUE, FALSE)],
    [re |-> Cat(<<Phrase(<<"nota", "fiscal">>), Spaces(0), ColonOrDash, Spaces(0),
                  Cap(1, Rep(InvoiceNumberClass, 1, -1))>>),
     flags |-> Flags(TRUE, FALSE)],
    [re |-> Cat(<<Lit("#"), Spaces(0), Cap(1, Rep(InvoiceNumberClass, 5, -1))>>),
     flags |-> Flags(FALSE, FALSE)],
    [re |-> Cat(<<Lit("INV"), Rep({":", "-"} \cup WhiteSpace, 0, -1),
                  Cap(1, Rep(InvoiceNumberClass, 1, -1))>>),
     flags |-> Flags(TRUE, FALSE)]>>

\* for (const pattern of invoiceNumberPatterns), from the k-th pattern on.
RECURSIVE InvoiceNumberFrom(_, _)
InvoiceNumberFrom(cleanText, k) ==
  IF k > Len(invoiceNumberPatterns) THEN JsNull
  ELSE LET m == match(cleanText, invoiceNumberPatterns[k].re,
                      invoiceNumberPatterns[k].flags)
       IN  IF ~m.found THEN InvoiceNumberFrom(cleanText, k + 1)
           ELSE IF m.groups[2].set /\ m.groups[2].str # ""
                  THEN JsString(trim(m.groups[1].str \o " " \o m.groups[2].str))
                  ELSE JsString(trim(m.groups[1].str))

\* [A-ZÀ-ÿ] and [A-Za-zÀ-ÿ\s&,.-]
NameClass == Upper \cup Lower \cup WhiteSpace \cup {"&", ",", ".", "-"}

\* const supplierPatterns = [...], with their flags.
supplierPatterns ==
  <<[re |-> Cat(<<Bol,
                  Cap(1, Cat(<<Rep(Upper, 1, 1), LazyRep(NameClass, 1, -1)>>)),
                  Alt(<<Cat(<<Spaces(1), Lit("de:")>>), Lit("NIF:"), Lit("Urb."),
                        Lit("Rua"), Lit("Av."), Lit("Tel:"), Lit("Email")>>)>>),
     flags |-> Flags(TRUE, TRUE)],
    [re |-> Cat(<<Bol,
                  Cap(1, Cat(<<Rep(Upper, 1, 1), LazyRep(NameClass, 1, -1)>>)),
                  Eol>>),
     flags |-> Flags(FALSE, TRUE)],
    [re |-> Cat(<<Alt(<<Lit("de"), Lit("from")>>),
                  Rep(WhiteSpace \cup {":"}, 1, -1),
                  Cap(1, Cat(<<Rep(Upper, 1, 1), Rep(NameClass, 1, -1)>>))>>),
     flags |-> Flags(TRUE, FALSE)]>>

\* for (const pattern of supplierPatterns), from the k-th pattern on.
RECURSIVE SupplierFrom(_, _)
SupplierFrom(text, k) ==
  IF k > Len(supplierPatterns) THEN JsNull
  ELSE LET m == match(text, supplierPatterns[k].re, supplierPatterns[k].flags)
       IN  IF m.found /\ m.groups[1].str # ""
             THEN JsString(trim(m.groups[1].str))
             ELSE SupplierFrom(text, k + 1)

\* text.split('\n').filter(line => line.trim())
NonEmptyLines(text) == SelectSeq(split(text, "\n"), LAMBDA line : trim(line) # "")

\* The first line when it has more than 3 and fewer than 100 characters,
\* else the first supplier pattern that matches.
Supplier(text) ==
  LET lines     == NonEmptyLines(text)
      firstLine == trim(lines[1])
  IN  IF lines # <<>> /\ Len(firstLine) > 3 /\ Len(firstLine) < 100
        THEN JsString(firstLine)
        ELSE SupplierFrom(text, 1)

parseInvoiceData(text) ==
  LET cleanText == trim(CollapseWhiteSpace(text))
  IN  [totalValue    |-> TotalFrom(cleanText, 1),
       currency      |-> Currency(cleanText),
       invoiceNumber |-> InvoiceNumberFrom(cleanText, 1),
       invoiceDate   |-> JsNull,
       supplierName  |-> Supplier(text)]

\* The records extractFromPDF and extractFromImage return:
\* { text: qrData, method, ...invoiceData } when a payload was decoded,
Found(method, text) ==
  [method |-> method, text |-> text] @@ parseQRCodeData(text)

\* and the literal with four null fields otherwise.
NotFound(method) ==
  [method        |-> method,
   text          |-> "",
   totalValue    |-> JsNull,
   currency      |-> JsUndefined,
   invoiceNumber |-> JsNull,
   invoiceDate   |-> JsUndefined,
   supplierName  |-> JsNull,
   customerNIF   |-> JsNull]

\* The record extractFromText returns: { text, length, lines, ...invoiceData };
\* it has no method and no customerNIF.
TextRecord(text) ==
  [method |-> NULL, text |-> text, customerNIF |-> JsUndefined]
    @@ parseInvoiceData(text)

\* case '.png': case '.jpg': case '.jpeg': case '.gif': case '.bmp':
ImageExtensions == {".png", ".jpg", ".jpeg", ".gif", ".bmp"}

\* Variant: the default case reads the file as text.
Branch_DefaultIsText(fileExtension) ==
  IF fileExtension = ".pdf" THEN "pdf"
  ELSE IF fileExtension \in ImageExtensions THEN "image"
  ELSE "text"

\* The case of the switch of extractData an extension selects.
Branch(fileExtension) ==
  IF fileExtension = ".pdf" THEN "pdf"
  ELSE IF fileExtension \in ImageExtensions THEN "image"
  ELSE IF fileExtension = ".txt" THEN "text"
  ELSE "default"

\* extractData: the switch on the extension, up to the first await.  The
\* text branch has no await, and the default branch throws.
extractData ==
  /\ xpc = "start"
  /\ LET branch == Branch(toLowerCase(doc.ext))
     IN  /\ xpc' = CASE branch = "pdf" -> "pdf_load"
                     [] branch = "image" -> "scan_load"
                     [] branch = "text" -> "done"
                     [] OTHER -> "threw"
         /\ result' = IF branch = "text" THEN TextRecord(doc.payload) ELSE result
  /\ UNCHANGED <<doc, src, strat, attempts, renders, qrData, qvars, jvars, cvars>>

\* extractFromPDF: getDocument and getPage settle.
PdfLoaded ==
  /\ xpc = "pdf_load"
  /\ IF doc.loads
       THEN /\ xpc' = "pdf_render"
            /\ src' = 1
            /\ UNCHANGED result
       ELSE /\ xpc' = "done"
            /\ result' = NotFound("qr-code-pdf-error")
            /\ UNCHANGED src
  /\ UNCHANGED <<doc, strat, attempts, renders, qrData, qvars, jvars, cvars>>

\* The loop over the scales has no scale left, or goes on with scale k.
PdfContinue(k) ==
  IF k > Len(scales)
    THEN /\ xpc' = "done"
         /\ result' = NotFound("qr-code-pdf-failed")
         /\ UNCHANGED src
    ELSE /\ xpc' = "pdf_render"
         /\ src' = k
         /\ UNCHANGED result

\* path.join('uploads', Date.now() + '-' + fileName): the path downloadFile
\* resolves with, the file of the job.
FilePath == [name |-> "download", scale |-> 0]

\* tempImagePath = filePath.replace('.pdf', `_temp_${scale}.png`): replace
\* looks for '.pdf' as written, so the path of a file named '.PDF' is left as
\* it is and the raster is written over the download.
tempImagePath(ext, scale) ==
  IF ext = ".pdf" THEN [name |-> "temp", scale |-> scale] ELSE FilePath

\* The finally block of extractFromPDF: unlinkSync of the last path assigned
\* to tempImagePath, that of the last scale rendered (rs: the renders made);
\* the error of a missing file is ignored.
unlinkTemp(fs, ext, rs) ==
  LET ok   == {i \in 1..Len(rs) : rs[i].ok}
      last == CHOOSE i \in ok : \A j \in ok : j <= i
  IN  IF ok = {} THEN fs ELSE fs \ {tempImagePath(ext, rs[last].scale)}

\* The files left by a step of extractFromPDF after which fs are on disk:
\* the finally block runs when the step returns the record.
PdfFiles(fs) ==
  files' = IF xpc' = "done" THEN unlinkTemp(fs, doc.ext, renders') ELSE fs

\* extractFromPDF: page.render settles for the current scale.  A rejection is
\* caught by catch (scaleError); otherwise the raster is written to the
\* temporary file and scanQRCode is called on it.
PdfRendered ==
  /\ xpc = "pdf_render"
  /\ IF src \in doc.renderFails
       THEN /\ renders' = Append(renders, [scale |-> scales[src], ok |-> FALSE])
            /\ PdfContinue(NextScale(src, TRUE))
            /\ PdfFiles(files)
       ELSE /\ renders' = Append(renders, [scale |-> scales[src], ok |-> TRUE])
            /\ xpc' = "scan_load"
            /\ PdfFiles(files \cup {tempImagePath(doc.ext, scales[src])})
            /\ UNCHANGED <<src, result>>
  /\ UNCHANGED <<doc, strat, attempts, qrData, qvars, cvars,
                 item, jpc, qpc, retries, posts, calls, sink>>

\* Variant: the rejection of the first Jimp.read leaves scanQRCode.
ScanLoaded_Raises ==
  /\ xpc = "scan_load"
  /\ IF src # 0 \/ doc.loads
       THEN /\ xpc' = "scan_try"
            /\ strat' = 1
       ELSE /\ xpc' = "threw"
            /\ UNCHANGED strat
  /\ UNCHANGED <<doc, src, attempts, renders, qrData, result, qvars, jvars, cvars>>

\* scanQRCode: the first Jimp.read settles.  A rejection is caught by the
\* outer catch, which returns null.  The rasters written by extractFromPDF
\* are readable.
ScanLoaded ==
  /\ xpc = "scan_load"
  /\ IF src # 0 \/ doc.loads
       THEN /\ xpc' = "scan_try"
            /\ strat' = 1
            /\ UNCHANGED qrData
       ELSE /\ xpc' = "scanned"
            /\ qrData' = NULL
            /\ UNCHANGED strat
  /\ UNCHANGED <<doc, src, attempts, renders, result, qvars, jvars, cvars>>

\* const image = await Jimp.read(filePath) of scanQRCode: read for its
\* dimensions and in scope until scanQRCode returns.
ScanScope == {"scanQRCode.image"}

\* const image = await Jimp.read(filePath) of tryStrategy: the raster the
\* strategy processes and decodes, in scope until tryStrategy returns.
StrategyScope == {"tryStrategy.image"}

\* canvas and imageBuffer of the loop body of extractFromPDF, in scope while
\* scanQRCode(tempImagePath) is awaited; none for raster 0, the image file.
RenderScope(k) == IF k = 0 THEN {} ELSE {"canvas", "imageBuffer"}

\* The image buffers referenced while a tryStrategy call on raster k runs
\* its engines (runs), or throws before any engine returns.
Held(k, runs) ==
  RenderScope(k) \cup ScanScope \cup (IF runs # <<>> THEN StrategyScope ELSE {})

\* scanQRCode: one tryStrategy call settles.  Whatever is thrown inside it is
\* caught and the strategy counts as failed.
ScanTried ==
  /\ xpc = "scan_try"
  /\ LET order   == RasterOrder(doc, src)
         name    == order[strat]
         mark    == doc.marks[src][name]
         runs    == IF mark = "throw" THEN <<>>
                    ELSE tryQRScan(IF mark = "code" THEN doc.decoders
                                                    ELSE Unseen)
         outcome == IF mark = "throw" THEN "throw"
                    ELSE IF Decoded(runs) THEN "code" ELSE "none"
     IN  /\ attempts' = Append(attempts, [raster |-> src, strategy |-> name,
                                          outcome |-> outcome,
                                          engines |-> runs,
                                          held |-> Held(src, runs)])
         /\ IF CodeFound(outcome)
              THEN /\ xpc' = "scanned"
                   /\ qrData' = doc.payload
                   /\ UNCHANGED strat
              ELSE IF strat = Len(order)
                     THEN /\ xpc' = "scanned"
                          /\ qrData' = NULL
                          /\ UNCHANGED strat
                     ELSE /\ strat' = strat + 1
                          /\ UNCHANGED <<xpc, qrData>>
  /\ UNCHANGED <<doc, src, renders, result, qvars, jvars, cvars>>

\* extractFromImage: await scanQRCode(filePath) resumes.
ImageScanned ==
  /\ xpc = "scanned"
  /\ src = 0
  /\ xpc' = "done"
  /\ result' = IF qrData # NULL THEN Found("qr-code", qrData)
                                ELSE NotFound("qr-code")
  /\ UNCHANGED <<doc, src, strat, attempts, renders, qrData, qvars, jvars, cvars>>

\* extractFromPDF: await scanQRCode(tempImagePath) resumes; the temporary
\* file is removed, and a payload ends the loop.
PdfScanned ==
  /\ xpc = "scanned"
  /\ src # 0
  /\ IF qrData # NULL
       THEN /\ xpc' = "done"
            /\ result' = Found("qr-code-pdf", qrData)
            /\ UNCHANGED src
       ELSE PdfContinue(NextScale(src, FALSE))
  /\ UNCHANGED renders
  /\ PdfFiles(files \ {tempImagePath(doc.ext, scales[src])})
  /\ UNCHANGED <<doc, strat, attempts, qrData, qvars, cvars,
                 item, jpc, qpc, retries, posts, calls, sink>>

(***************************************************************************)
(* The documents explored.                                                 *)
(***************************************************************************)
\* At most this many strategies of an image find the code or throw.
MaxMarked == 2

Payload == "A:123456789*F:20250929*G:FT 1/2*O:55,20"

Unmarked == [name \in StrategyNames |-> "none"]

\* The markings of a raster with at most n strategies marked.
RECURSIVE MarkingsUpTo(_)
MarkingsUpTo(n) ==
  IF n = 0
    THEN {Unmarked}
    ELSE LET less == MarkingsUpTo(n - 1)
         IN  less \cup {[m EXCEPT ![name] = mark] :
                          m \in less, name \in StrategyNames,
                          mark \in {"code", "throw"}}

\* How the engines can behave on a raster that shows the code: jsQR finds
\* it; only the ZXing readers do; only the second reader does, the first
\* throwing or returning no text.
DecoderCases ==
  {[jsQR |-> "code", HybridBinarizer |-> "code",
    GlobalHistogramBinarizer |-> "code"],
   [jsQR |-> "none", HybridBinarizer |-> "code",
    GlobalHistogramBinarizer |-> "code"],
   [jsQR |-> "none", HybridBinarizer |-> "throw",
    GlobalHistogramBinarizer |-> "code"],
   [jsQR |-> "none", HybridBinarizer |-> "none",
    GlobalHistogramBinarizer |-> "code"]}

\* Image sizes around the downscale threshold.
ImageSizes == {<<2000, 2000>>, <<2001, 1000>>, <<1000, 2001>>}

Images ==
  {[kind |-> "image", ext |-> ".png", loads |-> l, width |-> size[1], height |-> size[2],
    renderFails |-> {}, decoders |-> dec, payload |-> Payload,
    marks |-> [k \in 0..Len(scales) |-> IF k = 0 THEN m ELSE Unmarked]] :
     l \in BOOLEAN, size \in ImageSizes, m \in MarkingsUpTo(MaxMarked),
     dec \in DecoderCases}

\* What a page can be at one scale: a failed render, no code found, the code
\* found by the first strategy, the code found by the last strategy only.
PageCases == {"renderFail", "none", "first", "last"}

PageMarking(c) ==
  IF c = "first" THEN [Unmarked EXCEPT !["original"] = "code"]
  ELSE IF c = "last" THEN [Unmarked EXCEPT !["invert-normalize"] = "code"]
  ELSE Unmarked

\* An A4 page, in points.
Pdfs ==
  {[kind |-> "pdf", ext |-> ".pdf", loads |-> l, width |-> 595, height |-> 842,
    renderFails |-> {k \in 1..Len(scales) : c[k] = "renderFail"},
    decoders |-> dec, payload |-> Payload,
    marks |-> [k \in 0..Len(scales) |->
                 IF k = 0 THEN Unmarked ELSE PageMarking(c[k])]] :
     l \in BOOLEAN, c \in [1..Len(scales) -> PageCases],
     dec \in DecoderCases}

InitExtract ==
  /\ InitQueue
  /\ NoJobRun
  /\ InitCache
  /\ doc \in Images \cup Pdfs
  /\ xpc = "start"
  /\ src = 0
  /\ strat = 0
  /\ attempts = <<>>
  /\ renders = <<>>
  /\ qrData = NULL
  /\ result = NULL

NextExtract ==
  \/ extractData
  \/ PdfLoaded
  \/ PdfRendered
  \/ ScanLoaded
  \/ ScanTried
  \/ ImageScanned
  \/ PdfScanned

SpecExtract == InitExtract /\ [][NextExtract]_vars

(***************************************************************************)
(* Properties of the decode cascade.                                       *)
(***************************************************************************)
MinOf(S) == CHOOSE x \in S : \A y \in S : x <= y

\* The tryStrategy calls made on raster k, in order.
AttemptsOn(k) == SelectSeq(attempts, LAMBDA a : a.raster = k)

\* The positions in the strategy order of raster k at which the code is found.
Hits(k) ==
  {i \in 1..Len(RasterOrder(doc, k)) : doc.marks[k][RasterOrder(doc, k)[i]] = "code"}

\* C6: scanQRCode tries its strategies in one fixed order; when the N-th is
\* the first to find the code, exactly the first N are attempted, the ones
\* before the N-th fail, the payload is returned, and nothing is attempted
\* after it; when none finds it, all are attempted and null is returned.
C6_CascadeOrder ==
  \A k \in 0..Len(scales) :
    LET a     == AttemptsOn(k)
        order == RasterOrder(doc, k)
    IN  /\ Len(a) <= Len(order)
        /\ \A i \in 1..Len(a) :
             /\ a[i].strategy = order[i]
             /\ a[i].outcome = doc.marks[k][order[i]]
             /\ i < Len(a) => a[i].outcome # "code"
        /\ (xpc = "scanned" /\ src = k /\ (k # 0 \/ doc.loads))
             => IF Hits(k) = {}
                  THEN Len(a) = Len(order) /\ qrData = NULL
                  ELSE /\ Len(a) = MinOf(Hits(k))
                       /\ a[Len(a)].outcome = "code"
                       /\ qrData = doc.payload

\* An oversized image whose code only the downscale to 1200 px finds, after
\* another strategy has thrown: ten attempts, the last one successful.
C6_Witness ==
  /\ doc.kind = "image"
  /\ xpc = "done"
  /\ result = Found("qr-code", Payload)
  /\ Len(attempts) = 10
  /\ attempts[10].strategy = "scale-1200"
  /\ \E i \in 1..9 : attempts[i].outcome = "throw"

\* The render scales at which the page renders and the cascade finds the code.
GoodScales ==
  {k \in 1..Len(scales) : k \notin doc.renderFails /\ Hits(k) # {}}

\* C7: a PDF's first page is rendered at the scales 4.0, 3.5, 3.0, 2.5, 2.0 in
\* that order; a failed render does not end the loop; the first scale whose
\* raster yields a payload ends it, with no lower scale rendered; a document
\* decodable at the lowest scale only still yields its payload.
C7_DescendingScales ==
  /\ scales = <<40, 35, 30, 25, 20>>
  /\ \A i \in 1..Len(renders) :
       /\ i <= Len(scales)
       /\ renders[i].scale = scales[i]
       /\ renders[i].ok = (i \notin doc.renderFails)
  /\ \A i \in 1..Len(attempts) :
       attempts[i].raster # 0 => renders[attempts[i].raster].ok
  /\ (doc.kind = "pdf" /\ doc.loads /\ xpc = "done")
       => IF GoodScales = {}
            THEN /\ Len(renders) = Len(scales)
                 /\ result = NotFound("qr-code-pdf-failed")
            ELSE /\ Len(renders) = MinOf(GoodScales)
                 /\ result = Found("qr-code-pdf", doc.payload)

\* A PDF whose render fails at one scale and whose code is found at the
\* lowest scale only.
C7_Witness ==
  /\ doc.kind = "pdf"
  /\ xpc = "done"
  /\ Len(renders) = Len(scales)
  /\ \E i \in 1..Len(renders) : ~renders[i].ok
  /\ result = Found("qr-code-pdf", Payload)
  /\ GoodScales = {Len(scales)}

(***************************************************************************)
(* Properties of the job queue.                                            *)
(***************************************************************************)
Last(s) == s[Len(s)]

QueueIds == {processingQueue[k].id : k \in 1..Len(processingQueue)}

InFlight == {w \in Procs : procs[w].pc = "job"}

InFlightIds == {procs[w].job.id : w \in InFlight}

FinishedIds == {finished[k].id : k \in 1..Len(finished)}

HasOutcome(outcome) == \E k \in 1..Len(finished) : finished[k].outcome = outcome

\* Nothing is queued, nothing is running, and every trigger has its one outcome.
AllDone ==
  /\ processingQueue = <<>>
  /\ activeProcessors = 0
  /\ Len(finished) = Len(enqueued)
  /\ FinishedIds = 1..Len(enqueued)

\* C1: the number of active workers never exceeds the pool bound
\* MAX_CONCURRENT_PROCESSORS, whatever the interleaving of triggers, job
\* outcomes and worker exits.
C1_ActiveWithinBound == activeProcessors <= MAX_CONCURRENT_PROCESSORS

\* The pool is full while a trigger waits in the queue.
C1_Witness ==
  activeProcessors = MAX_CONCURRENT_PROCESSORS /\ Len(processingQueue) > 0

\* C2: when every awaited call returns or fails, every run ends with one
\* outcome per trigger, an empty queue and no active worker, also when
\* workers crashed on the way.
C2_AllJobsComplete == <>[]AllDone

\* All triggers are done and one of the workers had crashed.
C2_Witness ==
  AllDone /\ Len(enqueued) = MaxJobs /\ HasOutcome("crashed") /\ HasOutcome("failed")

\* C3: a worker exit decrements the count once and refills the pool, from the
\* count after the decrement, to the bound or to the number of queued
\* entries, whichever is smaller.
C3_ExitRefillsPool ==
  [][exited' # exited =>
       /\ exited' = exited + 1
       /\ activeProcessors' =
            Min(MAX_CONCURRENT_PROCESSORS,
                (activeProcessors - 1) + Len(processingQueue))
       /\ restarts' - restarts =
            (IF Len(processingQueue) > 0
                  /\ activeProcessors - 1 < MAX_CONCURRENT_PROCESSORS
               THEN 1 ELSE 0)
       /\ spawned' - spawned = activeProcessors' - (activeProcessors - 1)
       /\ Len(processingQueue') = Len(processingQueue) - (spawned' - spawned)]_vars

\* A worker crashed with an entry queued behind a full pool, and the pool is
\* back at the bound.
C3_Witness ==
  /\ HasOutcome("crashed")
  /\ restarts = 1
  /\ exited = 1
  /\ spawned = MAX_CONCURRENT_PROCESSORS + 1
  /\ activeProcessors = MAX_CONCURRENT_PROCESSORS

\* C4: no state between two event-loop turns has a queued entry and no
\* active worker.
C4_NoStall == ~(Len(processingQueue) > 0 /\ activeProcessors = 0)

\* A worker exited while an entry was queued, its finally block started a
\* worker for it, and the queue has since been drained.
C4_Witness ==
  /\ restarts >= 1
  /\ AllDone
  /\ Len(enqueued) = MaxJobs

\* C5: a job's failure is reported for that job and leaves the worker alive
\* (in its delay), the count, the queue and its order as they were; after the
\* delay the same worker takes the head of the queue.
C5_JobFailureIsolated ==
  [][/\ (Len(finished') = Len(finished) + 1 /\ Last(finished').outcome = "failed")
        => /\ activeProcessors' = activeProcessors
           /\ processingQueue' = processingQueue
           /\ spawned' = spawned
           /\ exited' = exited
           /\ \E w \in InFlight :
                /\ procs[w].job.id = Last(finished').id
                /\ procs'[w] = [procs[w] EXCEPT !.pc = "delay"]
     /\ \A w \in Procs :
          (/\ procs[w].pc = "delay"
           /\ [id |-> procs[w].job.id, outcome |-> "failed"] \in Range(finished)
           /\ procs'[w] # procs[w]
           /\ Len(processingQueue) > 0)
          => /\ procs'[w] = [pc |-> "job", job |-> Head(processingQueue),
                             prev |-> procs[w].job.id]
             /\ processingQueue' = Tail(processingQueue)
             /\ activeProcessors' = activeProcessors
             /\ exited' = exited]_vars

\* A worker is processing the entry it dequeued after a job of its own failed.
C5_Witness ==
  \E w \in InFlight :
    /\ procs[w].prev # 0
    /\ [id |-> procs[w].prev, outcome |-> "failed"] \in Range(finished)

\* C8: every queue entry is dequeued once and held by one worker: the
\* dequeued, the queued and the finished entries never overlap or repeat, and
\* a failed entry is not queued again.
C8_DequeuedExactlyOnce ==
  /\ Cardinality(Range(started)) = Len(started)
  /\ Cardinality(QueueIds) = Len(processingQueue)
  /\ QueueIds \cap Range(started) = {}
  /\ QueueIds \cup Range(started) = 1..Len(enqueued)
  /\ \A v, w \in InFlight : procs[v].job.id = procs[w].job.id => v = w
  /\ Cardinality(FinishedIds) = Len(finished)
  /\ InFlightIds \cap FinishedIds = {}
  /\ InFlightIds \cup FinishedIds = Range(started)

\* Two workers hold entries at once, after another entry has failed.
C8_Witness ==
  Cardinality(InFlight) = 2 /\ HasOutcome("failed")

\* C9: two triggers for the same (item, board) pair are two queue entries,
\* and each of them reaches its own outcome.
C9_DuplicatesBothProcessed ==
  <>[](\A i, j \in 1..Len(enqueued) :
         (i < j /\ enqueued[i] = enqueued[j])
           => \E m, n \in 1..Len(finished) :
                m # n /\ finished[m].id = i /\ finished[n].id = j)

\* Two workers process entries of the same item and board at the same time.
C9_Witness ==
  \E v, w \in InFlight :
    /\ v # w
    /\ procs[v].job.itemId = procs[w].job.itemId
    /\ procs[v].job.boardId = procs[w].job.boardId

(***************************************************************************)
(* The burst scenario: BurstJobs triggers arrive back to back, before any  *)
(* awaited call of a job has returned.                                     *)
(***************************************************************************)
BurstWebhook ==
  /\ Len(enqueued) < BurstJobs
  /\ addToQueue("item1", "board1")

BurstWork ==
  /\ Len(enqueued) = BurstJobs
  /\ \E w \in Procs : \/ JobCompleted(w)
                       \/ JobFailed(w)
                       \/ ProcessorCrashed(w)
                       \/ DelayElapsed(w)

NextBurst == BurstWebhook \/ BurstWork

SpecBurst == Init /\ [][NextBurst]_vars

\* The scenario's triggers all arrive.
FairSpecBurst == SpecBurst /\ Fairness /\ WF_vars(BurstWebhook)

\* C10, as stated: with a bound of 2 and 5 triggers back to back, 2 workers
\* start during the first two calls, every entry of the backlog is then
\* started by a new worker that starts as a worker finishes, all 5 complete,
\* and the count never exceeds 2.
C10_AsStated ==
  /\ [](activeProcessors <= MAX_CONCURRENT_PROCESSORS)
  /\ [](Len(enqueued) >= MAX_CONCURRENT_PROCESSORS
          => spawned >= MAX_CONCURRENT_PROCESSORS)
  /\ [][Len(started') > Len(started) => spawned' > spawned]_vars
  /\ <>[](AllDone /\ Len(enqueued) = BurstJobs)

\* C10, amended: 2 workers start during the first two calls; a worker that
\* finishes a job takes, after its delay, the next entry of the backlog
\* itself, and a new worker starts only from the finally block of a crashed
\* one; all triggers complete, and the count never exceeds 2.
C10_BurstDrainedByPool ==
  /\ [](activeProcessors <= MAX_CONCURRENT_PROCESSORS)
  /\ []((Len(enqueued) <= MAX_CONCURRENT_PROCESSORS /\ finished = <<>>)
          => /\ spawned = Len(enqueued)
             /\ activeProcessors = Len(enqueued)
             /\ processingQueue = <<>>)
  /\ []((Len(enqueued) >= MAX_CONCURRENT_PROCESSORS /\ finished = <<>>)
          => /\ spawned = MAX_CONCURRENT_PROCESSORS
             /\ activeProcessors = MAX_CONCURRENT_PROCESSORS
             /\ Len(processingQueue) = Len(enqueued) - MAX_CONCURRENT_PROCESSORS)
  /\ [][(Len(started') > Len(started) /\ enqueued' = enqueued)
          => \/ /\ spawned' = spawned
                /\ exited' = exited
                /\ \E w \in Procs :
                     /\ procs[w].pc = "delay"
                     /\ procs'[w] = [pc |-> "job", job |-> Head(processingQueue),
                                     prev |-> procs[w].job.id]
             \/ /\ spawned' = spawned + 1
                /\ exited' = exited + 1
                /\ restarts' = restarts + 1
                /\ Len(finished') = Len(finished) + 1
                /\ Last(finished').outcome = "crashed"]_vars
  /\ <>[](AllDone /\ Len(enqueued) = BurstJobs)

\* The whole burst has been processed by the two workers started first.
C10_Witness ==
  /\ AllDone
  /\ Len(enqueued) = BurstJobs
  /\ spawned = MAX_CONCURRENT_PROCESSORS
  /\ exited = MAX_CONCURRENT_PROCESSORS
  /\ restarts = 0

(***************************************************************************)
(* The life of a worker, the start routine, and the order of the jobs.     *)
(***************************************************************************)
\* The step reports a job as the one whose worker crashed.
CrashStep ==
  Len(finished') = Len(finished) + 1 /\ Last(finished').outcome = "crashed"

\* C11: a worker whose delay has elapsed takes the head of a non-empty queue
\* and goes on; a worker that exits without having crashed exits from its
\* delay, with its last job reported, and the queue is empty before and
\* after the exit.
C11_WorkerRunsUntilEmpty ==
  [][/\ \A w \in Procs :
          (/\ procs[w].pc = "delay"
           /\ procs'[w] # procs[w]
           /\ Len(processingQueue) > 0)
          => /\ procs'[w] = [pc |-> "job", job |-> Head(processingQueue),
                             prev |-> procs[w].job.id]
             /\ processingQueue' = Tail(processingQueue)
             /\ exited' = exited
     /\ (exited' # exited /\ ~CrashStep)
          => /\ processingQueue = <<>>
             /\ processingQueue' = <<>>
             /\ exited' = exited + 1
             /\ activeProcessors' = activeProcessors - 1
             /\ spawned' = spawned
             /\ \E w \in Procs :
                  /\ procs[w].pc = "delay"
                  /\ procs[w].job.id \in FinishedIds
                  /\ procs' = [procs EXCEPT ![w] = NoProc]]_vars

\* Three triggers were handled by two workers that never crashed: one of them
\* took a second entry after its first, and both exited on the empty queue.
C11_Witness ==
  /\ AllDone
  /\ Len(enqueued) = MaxJobs
  /\ spawned = MAX_CONCURRENT_PROCESSORS
  /\ exited = MAX_CONCURRENT_PROCESSORS
  /\ ~HasOutcome("crashed")
  /\ HasOutcome("failed")

\* The states in which the program calls startProcessors: in addToQueue after
\* the push, and in the finally block of an invocation after the decrement;
\* and the state at rest, in which a further call could be made.
Exiting(st, w) ==
  [st EXCEPT !.active = @ - 1, !.procs[w] = NoProc, !.exited = @ + 1]

StartInputs ==
  {QueueState}
    \cup {Push(QueueState, itemId, boardId) : itemId \in Items, boardId \in Boards}
    \cup {Exiting(QueueState, w) : w \in {v \in Procs : procs[v].pc # "none"}}

\* The number of workers a call of startProcessors has to start.
Shortfall(st) ==
  IF st.active >= MAX_CONCURRENT_PROCESSORS
    THEN 0
    ELSE Min(MAX_CONCURRENT_PROCESSORS - st.active, Len(st.queue))

\* C12: startProcessors starts a worker only while the count is below the
\* bound and the queue is non-empty (as many workers as the smaller of the
\* free places and the queued entries, each taking one entry); it changes
\* nothing when the queue is empty or the pool is full; and a second call
\* right after the first changes nothing.
C12_StartProcessorsIdempotent ==
  \A st \in StartInputs :
    LET once == startProcessors(st)
    IN  /\ once.spawned - st.spawned = Shortfall(st)
        /\ once.active = st.active + Shortfall(st)
        /\ Len(once.queue) = Len(st.queue) - Shortfall(st)
        /\ (Len(st.queue) = 0 \/ st.active >= MAX_CONCURRENT_PROCESSORS)
             => once = st
        /\ startProcessors(once) = once

\* One worker is running and an entry is queued as a crashed worker's finally
\* block calls startProcessors, which starts one worker; and a call made
\* with a full pool and an entry queued starts none.
C12_Witness ==
  /\ \E st \in StartInputs :
       /\ st.active = MAX_CONCURRENT_PROCESSORS - 1
       /\ Len(st.queue) = 1
       /\ st.exited = exited + 1
       /\ startProcessors(st).spawned = st.spawned + 1
       /\ startProcessors(st).queue = <<>>
  /\ \E st \in StartInputs :
       /\ st.active = MAX_CONCURRENT_PROCESSORS
       /\ Len(st.queue) = 2
       /\ startProcessors(st) = st

\* C13: entries are dequeued in the order of their addToQueue calls: the n-th
\* entry dequeued is the n-th enqueued, and the queue holds the later ones in
\* that order.  The order of completion is free (C13_Witness).
C13_FifoStart ==
  /\ \A i \in 1..Len(started) : started[i] = i
  /\ \A k \in 1..Len(processingQueue) : processingQueue[k].id = Len(started) + k

\* In a burst handled by the two workers started first, a later-enqueued job
\* has completed before an earlier-enqueued one, which has completed too.
C13_Witness ==
  /\ \E m, n \in 1..Len(finished) :
       /\ m < n
       /\ finished[m].id > finished[n].id
       /\ finished[m].outcome = "completed"
       /\ finished[n].outcome = "completed"
  /\ Len(started) = BurstJobs
  /\ spawned = MAX_CONCURRENT_PROCESSORS

(***************************************************************************)
(* One job: processItemExtraction and the controller calls it awaits.      *)
(*                                                                         *)
(* The model follows the first copy of processItemExtraction (index.js    *)
(* lines 135-193), whose finally block removes the downloaded file and     *)
(* cannot throw.  The second copy (lines 344-396) makes the same calls in  *)
(* the same order, and removes the file inside its try block instead,      *)
(* after the update of the board.                                          *)
(*                                                                         *)
(* The job's surroundings are described by item:                           *)
(*   listing   what the items query finds: "noItem" no item, "noValue" no  *)
(*             value in the file column, "badJson" a value JSON.parse      *)
(*             rejects, "noFiles" no file with a locator, "files" at least *)
(*             one (the first is processed, its content is doc);           *)
(*   locator   "url" or "assetId" (a number);                              *)
(*   asset     whether the assets query finds the asset;                   *)
(*   download  "ok", "status" (a status other than 200, 301, 302),         *)
(*             "error" (the request emits 'error'), or "stall" (the server *)
(*             accepts the request and sends nothing: the request has no   *)
(*             timeout, and none of its callbacks is ever called).         *)
(***************************************************************************)
\* async executeQuery(query, variables = {}, retries = 3)
DefaultRetries == 3

\* await new Promise(resolve => setTimeout(resolve, 1000))
RetryDelay == 1000

\* timeout: 30000 of the axios instance; a POST that exceeds it rejects with
\* the code ECONNABORTED.
AxiosTimeout == 30000

\* error.code === 'ECONNRESET' || error.code === 'ETIMEDOUT' || error.code === 'ECONNABORTED'
ConnectionErrors == {"ECONNRESET", "ETIMEDOUT", "ECONNABORTED"}

\* What a POST settles with: a response with data, a response whose body
\* has errors, or a rejection with a code (ERR_BAD_RESPONSE: a status outside
\* 2xx).
Responses == {"data", "errors", "ERR_BAD_RESPONSE"} \cup ConnectionErrors

\* Variant: every failed attempt is retried while attempts are left.
ShouldRetry_AnyError(n, response) == n > 0

\* Variant: a connection error is retried without counting the attempts.
ShouldRetry_Unbounded(n, response) == response \in ConnectionErrors

\* if (retries > 0 && (error.code === ...))
ShouldRetry(n, response) == n > 0 /\ response \in ConnectionErrors

\* return this.executeQuery(query, variables, retries - 1)
NextRetries(n) == n - 1

ColumnIds == {"numeric_mkwbrpmz", "text_mkwb4nns", "text_mkwbcyg3", "text_mkwbb9"}

\* The field of the extraction record a column is filled from.
ColumnField(extractedData, c) ==
  CASE c = "numeric_mkwbrpmz" -> extractedData.totalValue
    [] c = "text_mkwb4nns" -> extractedData.invoiceNumber
    [] c = "text_mkwbcyg3" -> extractedData.supplierName
    [] c = "text_mkwbb9" -> extractedData.customerNIF

\* Variant: every column is set, a missing field as null.
mapDataToColumns_AllColumns(extractedData) ==
  [c \in ColumnIds |-> ColumnField(extractedData, c)]

\* mapDataToColumns: the columns set, with their values.
mapDataToColumns(extractedData) ==
  LET set(c) == IF c = "numeric_mkwbrpmz"
                  THEN ColumnField(extractedData, c).type \notin {"null", "undefined"}
                  ELSE Truthy(ColumnField(extractedData, c))
  IN  [c \in {d \in ColumnIds : set(d)} |-> ColumnField(extractedData, c)]

\* A controller method is called and its executeQuery sends the first POST.
StartQuery(name) ==
  /\ jpc' = name
  /\ qpc' = "post"
  /\ retries' = DefaultRetries
  /\ posts' = <<>>
  /\ calls' = Append(calls, name)
  /\ UNCHANGED files

\* let filePath = null ... filePath = await mondayController.downloadFile(...):
\* filePath holds the path once downloadFile has resolved.
HasFilePath == jpc \in {"extractData", "updateMondayBoard"}

\* How processItemExtraction ends when its body returned or threw (how), and
\* the files it leaves, in the first copy of index.js: the finally block
\* removes the download if filePath is set and the file exists.
EndFirst(how) ==
  [how   |-> how,
   files |-> IF HasFilePath /\ FilePath \in files THEN files \ {FilePath} ELSE files]

\* The same in the second copy of index.js: fs.unlinkSync(filePath) is the
\* last statement of the try block, reached only when updateMondayBoard has
\* returned, and it throws into the catch block when the file is missing.
EndSecond(how) ==
  IF how = "resolved" /\ HasFilePath
    THEN IF FilePath \in files
           THEN [how |-> "resolved", files |-> files \ {FilePath}]
           ELSE [how |-> "rejected", files |-> files]
    ELSE [how |-> how, files |-> files]

\* The promise of processItemExtraction settles (copy: which of the two
\* copies of index.js is run).
SettleIn(copy, how) ==
  LET end == IF copy = 1 THEN EndFirst(how) ELSE EndSecond(how)
  IN  /\ jpc' = end.how
      /\ qpc' = "none"
      /\ files' = end.files
      /\ UNCHANGED <<retries, calls>>

Settle(how) == SettleIn(1, how)

\* The entry a settled POST leaves in posts: what it settled with, the
\* timeout of the axios instance it was sent through, the retries left when
\* it was sent, and the wait armed after it (0: none).
Attempt(response) ==
  [response |-> response,
   timeout  |-> AxiosTimeout,
   retries  |-> retries,
   wait     |-> IF response # "data" /\ ShouldRetry(retries, response)
                  THEN RetryDelay ELSE 0]

Logged(response) == posts' = Append(posts, Attempt(response))

\* filePath = await mondayController.downloadFile(downloadUrl, file.name)
CallDownload ==
  /\ jpc' = "downloadFile"
  /\ qpc' = "none"
  /\ calls' = Append(calls, "downloadFile")
  /\ UNCHANGED <<retries, files>>

\* Variant: only a missing item counts as having no files.
NoFilesAttached_NullOnly(it) == it.listing = "noItem"

\* if (!itemData || !itemData.files || itemData.files.length === 0): getItemFiles
\* returns null for no item, and { files: [] } for no value, for a value that
\* is not JSON, and when no file has a locator.
NoFilesAttached(it) == it.listing \in {"noItem", "noValue", "badJson", "noFiles"}

\* executeQuery returns response.data.data; the controller method that
\* called it returns, and processItemExtraction goes on to its next await.
QueryReturnedIn(copy) ==
  CASE jpc = "getItemFiles" ->
         IF NoFilesAttached(item)
           THEN SettleIn(copy, "resolved") /\ Logged("data")
           ELSE IF item.locator = "assetId"
                  THEN StartQuery("getAssetUrl")
                  ELSE CallDownload /\ Logged("data")
    [] jpc = "getAssetUrl" ->
         IF item.asset = "found"
           THEN CallDownload /\ Logged("data")
           ELSE SettleIn(copy, "rejected") /\ Logged("data")
    [] jpc = "updateMondayBoard" ->
         SettleIn(copy, "resolved") /\ Logged("data")

QueryReturned == QueryReturnedIn(1)

\* The POST of the executeQuery invocation in progress settles.
PostSettledIn(copy) ==
  /\ qpc = "post"
  /\ \E response \in Responses :
       IF response = "data"
         THEN QueryReturnedIn(copy)
         ELSE IF ShouldRetry(retries, response)
                THEN /\ qpc' = "wait"
                     /\ Logged(response)
                     /\ UNCHANGED <<jpc, retries, calls, files>>
                ELSE SettleIn(copy, "rejected") /\ Logged(response)
  /\ UNCHANGED <<item, sink, qvars, xvars, cvars>>

PostSettled == PostSettledIn(1)

\* The timer of the catch block fires: executeQuery calls itself.
RetryWaitElapsed ==
  /\ qpc = "wait"
  /\ qpc' = "post"
  /\ retries' = NextRetries(retries)
  /\ UNCHANGED <<item, jpc, posts, calls, sink, files, qvars, xvars, cvars>>

\* downloadFile settles: with the path of the file written, or with an error
\* (filePath is still null then, and neither copy has a file to remove).
\* On the path, extractData is called.
DownloadSettled ==
  /\ jpc = "downloadFile"
  /\ item.download # "stall"
  /\ IF item.download = "ok"
       THEN /\ jpc' = "extractData"
            /\ xpc' = "start"
            /\ calls' = Append(calls, "extractData")
            /\ files' = files \cup {FilePath}
       ELSE /\ jpc' = "rejected"
            /\ UNCHANGED <<xpc, calls, files>>
  /\ UNCHANGED <<item, qpc, retries, posts, sink, qvars, cvars,
                 doc, src, strat, attempts, renders, qrData, result>>

\* Variant: a record with no payload is not sent to the board.
SinkCall_SkipEmpty(extractedData) ==
  IF extractedData.text = ""
    THEN Settle("resolved") /\ UNCHANGED <<posts, sink>>
    ELSE /\ StartQuery("updateMondayBoard")
         /\ sink' = Append(sink, mapDataToColumns(extractedData))

\* await mondayController.updateMondayBoard(boardId, itemId, extractedData)
SinkCall(extractedData) ==
  /\ StartQuery("updateMondayBoard")
  /\ sink' = Append(sink, mapDataToColumns(extractedData))

\* extractData settles: with a record, which is sent to the board, or with
\* the error of the default branch.
ExtractDataSettledIn(copy) ==
  /\ jpc = "extractData"
  /\ xpc \in {"done", "threw"}
  /\ IF xpc = "done"
       THEN SinkCall(result)
       ELSE SettleIn(copy, "rejected") /\ UNCHANGED <<posts, sink>>
  /\ UNCHANGED <<item, qvars, xvars, cvars>>

ExtractDataSettled == ExtractDataSettledIn(1)

\* The await of processItemExtraction in processQueue resumes.
JobSettled ==
  \E w \in Procs : \/ jpc = "resolved" /\ JobCompleted(w)
                   \/ jpc = "rejected" /\ JobFailed(w)

\* The trigger of the job: addToQueue starts a worker, which takes the entry
\* and calls processItemExtraction, which runs up to the POST of getItemFiles.
JobTrigger ==
  /\ enqueued = <<>>
  /\ Store(startProcessors(Push(QueueState, "item1", "board1")))
  /\ enqueued' = Append(enqueued, <<"item1", "board1">>)
  /\ StartQuery("getItemFiles")
  /\ UNCHANGED <<finished, item, sink, xvars, cvars>>

(***************************************************************************)
(* The jobs explored.                                                      *)
(***************************************************************************)
TextContent == "FARMACIA CENTRAL\nTotal: Eur 55,20"

\* A document of no particular content.
Blank(kind, ext) ==
  [kind |-> kind, ext |-> ext, loads |-> TRUE, width |-> 0, height |-> 0,
   renderFails |-> {}, payload |-> "",
   decoders |-> [jsQR |-> "code", HybridBinarizer |-> "code",
                 GlobalHistogramBinarizer |-> "code"],
   marks |-> [k \in 0..Len(scales) |-> Unmarked]]

\* Images: unreadable, without a code, with a code the first strategy finds,
\* with a code only the last strategy finds, and with a first strategy that
\* throws before the last one finds the code.
JobImages ==
  {[Blank("image", ext) EXCEPT !.loads = l, !.width = 2000, !.height = 2000,
                               !.payload = Payload, !.marks[0] = m] :
     ext \in {".png", ".jpeg", ".PNG"},
     l \in BOOLEAN,
     m \in {Unmarked, PageMarking("first"), PageMarking("last"),
            [PageMarking("last") EXCEPT !["original"] = "throw"]}}

\* PDFs: unloadable, or with the same case at every scale.
JobPdfs ==
  {[Blank("pdf", ext) EXCEPT !.loads = l, !.width = 595, !.height = 842,
                             !.payload = Payload,
                             !.renderFails = IF c = "renderFail"
                                               THEN 1..Len(scales) ELSE {},
                             !.marks = [k \in 0..Len(scales) |->
                                          IF k = 0 THEN Unmarked ELSE PageMarking(c)]] :
     ext \in {".pdf", ".PDF"}, l \in BOOLEAN, c \in PageCases}

JobTexts ==
  {[Blank("text", ext) EXCEPT !.payload = TextContent] : ext \in {".txt", ".TXT"}}

\* Files of other extensions, or of none.
JobOthers == {Blank("other", ext) : ext \in {".docx", ".DOCX", ".tiff", ".webp", ""}}

JobDocs == JobImages \cup JobPdfs \cup JobTexts \cup JobOthers

\* The items whose first file is downloaded, and the others.
ItemCase(listing, locator, asset, download) ==
  [listing |-> listing, locator |-> locator, asset |-> asset, download |-> download]

ItemsWithFile ==
  {ItemCase("files", "url", "found", "ok"), ItemCase("files", "assetId", "found", "ok")}

ItemsWithoutFile ==
  {ItemCase(l, "url", "found", "ok") : l \in {"noItem", "noValue", "badJson", "noFiles"}}
    \cup {ItemCase("files", "url", "found", d) : d \in {"status", "error", "stall"}}
    \cup {ItemCase("files", "assetId", "missing", "ok")}

InitJob ==
  /\ InitQueue
  /\ InitCache
  /\ \/ item \in ItemsWithFile /\ doc \in JobDocs
     \/ item \in ItemsWithoutFile /\ doc = Blank("other", "")
  /\ xpc = "idle"
  /\ src = 0
  /\ strat = 0
  /\ attempts = <<>>
  /\ renders = <<>>
  /\ qrData = NULL
  /\ result = NULL
  /\ jpc = "idle"
  /\ qpc = "none"
  /\ retries = 0
  /\ posts = <<>>
  /\ calls = <<>>
  /\ sink = <<>>
  /\ files = {}

NextJob ==
  \/ JobTrigger
  \/ PostSettled
  \/ RetryWaitElapsed
  \/ DownloadSettled
  \/ NextExtract
  \/ ExtractDataSettled
  \/ JobSettled
  \/ \E w \in Procs : DelayElapsed(w)

SpecJob == InitJob /\ [][NextJob]_vars

\* The job as the second copy of index.js runs it: the same calls, with the
\* cleanup of that copy.
NextJobSecond ==
  \/ JobTrigger
  \/ PostSettledIn(2)
  \/ RetryWaitElapsed
  \/ DownloadSettled
  \/ NextExtract
  \/ ExtractDataSettledIn(2)
  \/ JobSettled
  \/ \E w \in Procs : DelayElapsed(w)

SpecJobSecond == InitJob /\ [][NextJobSecond]_vars

(***************************************************************************)
(* Properties of a job.                                                    *)
(***************************************************************************)
\* extractData has returned the record of a document in which no code was
\* found: an image or a PDF, readable or not.
NoCodeFound ==
  /\ Branch(toLowerCase(doc.ext)) \in {"image", "pdf"}
  /\ xpc = "done"
  /\ result.text = ""

\* The outcomes reported for the job so far.
Outcomes == {finished[k].outcome : k \in 1..Len(finished)}

\* C14: when no code is found in an image or a PDF, extractData returns a
\* record whose invoice fields are null; the job calls updateMondayBoard
\* once, with no column set; and the job is reported completed when that
\* update returns, and failed only when the update itself is raised.
C14_NotFoundStillUpdates ==
  NoCodeFound =>
    /\ result = NotFound(result.method)
    /\ result.method \in {"qr-code", "qr-code-pdf-failed", "qr-code-pdf-error"}
    /\ jpc # "idle"
    /\ IF jpc = "extractData"
         THEN sink = <<>>
         ELSE /\ Len(sink) = 1
              /\ DOMAIN sink[1] = {}
              /\ Last(calls) = "updateMondayBoard"
              /\ Cardinality({k \in 1..Len(calls) : calls[k] = "updateMondayBoard"}) = 1
              /\ jpc = "resolved" => Last(posts).response = "data"
              /\ jpc = "rejected" => Last(posts).response # "data"
              /\ jpc = "updateMondayBoard" => finished = <<>>
              /\ "completed" \in Outcomes => jpc = "resolved"
              /\ "failed" \in Outcomes => jpc = "rejected"

\* A readable image in which none of the strategies finds a code: the board
\* was updated once with no column set, and the job is reported completed.
C14_Witness ==
  /\ NoCodeFound
  /\ doc.kind = "image"
  /\ doc.loads
  /\ Len(attempts) = Len(RasterOrder(doc, 0))
  /\ Len(sink) = 1
  /\ DOMAIN sink[1] = {}
  /\ finished = <<[id |-> 1, outcome |-> "completed"]>>

\* C15: when getItemFiles returns no file (no item, no value in the file
\* column, a value that is not JSON, or no file with a locator), the job
\* makes no other call: nothing is downloaded, extractData is not called, no
\* raster is rendered or scanned, the board is not updated; and the job is
\* reported completed.
C15_NoFilesIsNoOp ==
  (item.listing \in {"noItem", "noValue", "badJson", "noFiles"} /\ jpc # "idle") =>
    /\ calls = <<"getItemFiles">>
    /\ xpc = "idle"
    /\ attempts = <<>>
    /\ renders = <<>>
    /\ result = NULL
    /\ sink = <<>>
    /\ (posts # <<>> /\ Last(posts).response = "data") => jpc = "resolved"
    /\ jpc = "resolved" => Last(posts).response = "data"
    /\ jpc = "rejected" => Last(posts).response # "data"
    /\ jpc = "getItemFiles" => finished = <<>>
    /\ "completed" \in Outcomes => jpc = "resolved"
    /\ "failed" \in Outcomes => jpc = "rejected"

\* The file column of the item holds no file with a locator: the job is
\* reported completed after the one query, retried once, and its worker has
\* exited.
C15_Witness ==
  /\ item.listing = "noFiles"
  /\ calls = <<"getItemFiles">>
  /\ Len(posts) = 2
  /\ finished = <<[id |-> 1, outcome |-> "completed"]>>
  /\ activeProcessors = 0

\* extractData has been called on a document whose extension is not in the
\* given set, and has left its synchronous part.
ExtractedOutside(accepted) ==
  /\ toLowerCase(doc.ext) \notin accepted
  /\ xpc \notin {"idle", "start"}

\* extractData threw before anything was rendered or read, the board is not
\* updated, and the job, once reported, is reported failed by a worker that
\* goes on.
FailsAsUnsupported ==
  /\ xpc = "threw"
  /\ attempts = <<>>
  /\ renders = <<>>
  /\ result = NULL
  /\ sink = <<>>
  /\ Last(calls) = "extractData"
  /\ jpc \in {"extractData", "rejected"}
  /\ Outcomes \subseteq {"failed"}
  /\ spawned = 1
  /\ restarts = 0
  /\ IF exited = 0
       THEN activeProcessors = 1
       ELSE activeProcessors = 0 /\ finished # <<>>

\* C16, as stated: a document whose extension is neither one of the image
\* extensions nor .pdf fails as unsupported.
C16_AsStated ==
  ExtractedOutside(ImageExtensions \cup {".pdf"}) => FailsAsUnsupported

\* C16, amended: a document whose extension is neither one of the image
\* extensions, nor .pdf, nor .txt fails as unsupported: before any raster is
\* produced, with the job reported failed, its worker going on, and the
\* board not updated.
C16_UnsupportedFormatFails ==
  ExtractedOutside(ImageExtensions \cup {".pdf", ".txt"}) => FailsAsUnsupported

\* A .docx file: the job is reported failed, the worker has exited on the
\* empty queue, and the board was not updated.
C16_Witness ==
  /\ doc.ext = ".docx"
  /\ xpc = "threw"
  /\ calls = <<"getItemFiles", "downloadFile", "extractData">>
  /\ finished = <<[id |-> 1, outcome |-> "failed"]>>
  /\ sink = <<>>
  /\ exited = 1

\* The controller methods that go through executeQuery.
QueryNames == {"getItemFiles", "getAssetUrl", "updateMondayBoard"}

\* The timeout a call is made with (0: none): the POSTs of executeQuery go
\* through the axios instance; downloadFile uses http(s).get without a
\* timeout, and extractData awaits pdfjs and Jimp promises directly.
TimeoutOf(call) == IF call \in QueryNames THEN AxiosTimeout ELSE 0

\* The number of calls of a controller method made by the job.
CallsOf(name) == Cardinality({k \in 1..Len(calls) : calls[k] = name})

\* The job was rejected by a connection-level failure of its last call.
FailedOnConnection ==
  /\ jpc = "rejected"
  /\ \/ Last(calls) \in QueryNames /\ Last(posts).response \in ConnectionErrors
     \/ Last(calls) = "downloadFile" /\ item.download = "error"

\* C17, as stated: every call made for a job carries a timeout, and a call
\* that fails on a timeout or a connection error has been retried, a bounded
\* number of times, before the job is marked failed; a failed render is a
\* call that is made again.
C17_AsStated ==
  /\ \A k \in 1..Len(calls) : TimeoutOf(calls[k]) > 0
  /\ FailedOnConnection =>
       \/ Len(posts) \in 2..(DefaultRetries + 1)
       \/ CallsOf("downloadFile") \in 2..(DefaultRetries + 1)
  /\ \A i \in 1..(Len(renders) - 1) :
       ~renders[i].ok => renders[i + 1].scale = renders[i].scale

\* C17, amended: the three API queries of a job are sent with the 30 s timeout
\* of the axios instance, and a query that fails on a connection-level error
\* (the timeout included) is sent again after 1 s, at most 3 times, before
\* the job is marked failed.  The download, the renders and the decode
\* strategies have no timeout and are made once each: a failed download
\* fails the job at once, a stalled one leaves it pending, a failed render
\* moves on to the next scale, and a failed strategy to the next strategy.
C17_QueriesTimeOutAndRetry ==
  /\ Len(posts) <= DefaultRetries + 1
  /\ \A i \in 1..Len(posts) :
       /\ posts[i].timeout = AxiosTimeout
       /\ posts[i].retries = DefaultRetries - (i - 1)
       /\ (i < Len(posts) \/ qpc = "wait")
            => posts[i].response \in ConnectionErrors /\ posts[i].wait = RetryDelay
  /\ (FailedOnConnection /\ Last(calls) \in QueryNames)
       => Len(posts) = DefaultRetries + 1
  /\ CallsOf("downloadFile") <= 1
  /\ (CallsOf("downloadFile") = 1 /\ item.download \in {"status", "error"})
       => jpc \in {"downloadFile", "rejected"} /\ CallsOf("extractData") = 0
  /\ (CallsOf("downloadFile") = 1 /\ item.download = "stall")
       => jpc = "downloadFile" /\ finished = <<>>
  /\ \A i \in 1..Len(renders) : renders[i].scale = scales[i]
  /\ \A i, j \in 1..Len(attempts) :
       (attempts[i].raster = attempts[j].raster
          /\ attempts[i].strategy = attempts[j].strategy) => i = j

\* The update of the board met four connection errors, the 30 s timeout
\* among them: it was sent 4 times, 1 s apart, and the job is reported failed
\* after the record had been extracted.
C17_Witness ==
  /\ jpc = "rejected"
  /\ Last(calls) = "updateMondayBoard"
  /\ Len(posts) = DefaultRetries + 1
  /\ \A i \in 1..Len(posts) : posts[i].response \in ConnectionErrors
  /\ \E i \in 1..Len(posts) : posts[i].response = "ECONNABORTED"
  /\ \A i \in 1..DefaultRetries : posts[i].wait = RetryDelay
  /\ finished = <<[id |-> 1, outcome |-> "failed"]>>

\* The step settles a POST with the given kind of response.  (When the items
\* query returns and the asset query is sent in the same step, posts is
\* empty afterwards.)
PostStep(kind) ==
  /\ qpc = "post"
  /\ \/ /\ posts' = <<>>
        /\ Len(calls') = Len(calls) + 1
        /\ Last(calls') \in QueryNames
        /\ kind = {"data"}
     \/ /\ Len(posts') = Len(posts) + 1
        /\ Last(posts').response \in kind
        /\ Last(posts').retries = retries

\* C18: an executeQuery call sends at most 1 + 3 POSTs.  A POST is followed
\* by a wait, of 1 s, exactly when it met one of the three connection errors
\* and retries are left; after the wait the same query is sent again with one
\* retry fewer.  Any other error, and a connection error with no retry left,
\* rejects the job, which is then reported failed; and a POST that returns
\* data is the last of its call.
C18_ExecuteQueryRetries ==
  /\ [](/\ Len(posts) <= 1 + DefaultRetries
        /\ retries \in 0..DefaultRetries
        /\ qpc = "post" => Len(posts) = DefaultRetries - retries
        /\ qpc = "wait" => Len(posts) = DefaultRetries - retries + 1
        /\ (jpc = "rejected" /\ finished # <<>>)
             => finished = <<[id |-> 1, outcome |-> "failed"]>>)
  /\ [][/\ (qpc # "wait" /\ qpc' = "wait")
             => /\ PostStep(ConnectionErrors)
                /\ retries > 0
                /\ Last(posts').wait = RetryDelay
                /\ jpc' = jpc
        /\ (qpc = "wait" /\ qpc' # "wait")
             => /\ qpc' = "post"
                /\ retries' = retries - 1
                /\ jpc' = jpc
                /\ posts' = posts
                /\ calls' = calls
        /\ PostStep(ConnectionErrors)
             => IF retries > 0
                  THEN qpc' = "wait"
                  ELSE jpc' = "rejected" /\ qpc' = "none" /\ Last(posts').wait = 0
        /\ PostStep({"errors", "ERR_BAD_RESPONSE"})
             => jpc' = "rejected" /\ qpc' = "none" /\ Last(posts').wait = 0
        /\ PostStep({"data"})
             => /\ qpc' \in {"none", "post"}
                /\ qpc' = "post" => (jpc' # jpc /\ retries' = DefaultRetries)
                /\ jpc' = "rejected" => (jpc = "getAssetUrl" /\ item.asset = "missing")]_vars

\* The items query met two connection errors, each followed by a wait of
\* 1 s, and then a response with errors: it was raised after the third POST,
\* with a retry left, and the job is reported failed.
C18_Witness ==
  /\ calls = <<"getItemFiles">>
  /\ Len(posts) = 3
  /\ posts[1].response = "ECONNRESET"
  /\ posts[2].response = "ETIMEDOUT"
  /\ posts[3].response = "errors"
  /\ posts[1].wait = RetryDelay /\ posts[2].wait = RetryDelay /\ posts[3].wait = 0
  /\ retries = 1
  /\ jpc = "rejected"
  /\ finished = <<[id |-> 1, outcome |-> "failed"]>>


(***************************************************************************)
(* Properties of the cascade's outcome.                                    *)
(***************************************************************************)
\* The rasters the document yields for scanning: the image when Jimp reads
\* it, the first page at each scale that renders when the PDF loads.
Candidates ==
  IF ~doc.loads THEN {}
  ELSE IF doc.kind = "image" THEN {0}
  ELSE {k \in 1..Len(scales) : k \notin doc.renderFails}

\* Some engine returns the payload on raster k processed by the strategy.
Decodable(k, name) ==
  /\ doc.marks[k][name] = "code"
  /\ \E i \in 1..Len(Engines) : doc.decoders[Engines[i]] = "code"

\* The records returned when no code was found.
NotFoundRecords ==
  {NotFound(method) : method \in {"qr-code", "qr-code-pdf-failed",
                                  "qr-code-pdf-error"}}

\* The tryStrategy call failed with every engine it ran: the call threw
\* before any engine returned, or the three engines ran and none returned
\* the payload.
AttemptFailed(a) ==
  /\ a.outcome # "code"
  /\ \/ a.engines = <<>> /\ a.outcome = "throw"
     \/ /\ Len(a.engines) = Len(Engines)
        /\ \A i \in 1..Len(Engines) :
             /\ a.engines[i].engine = Engines[i]
             /\ a.engines[i].outcome # "code"

\* C19: extractData on an image or a PDF returns the not-found record exactly
\* when no engine returns the payload for any strategy on any raster the
\* document yields; every strategy has then been attempted on every such
\* raster and has failed with every engine; the record is a returned value
\* with an empty text and null fields, and nothing is thrown.
C19_NotFoundIffAllFailed ==
  doc.kind \in {"image", "pdf"} =>
    /\ xpc # "threw"
    /\ xpc = "done" =>
         /\ result \in NotFoundRecords
              <=> \A k \in Candidates :
                    \A name \in Range(RasterOrder(doc, k)) : ~Decodable(k, name)
         /\ IF result \in NotFoundRecords
              THEN /\ result.text = ""
                   /\ result.totalValue = JsNull
                   /\ \A k \in Candidates :
                        /\ Len(AttemptsOn(k)) = Len(RasterOrder(doc, k))
                        /\ \A i \in 1..Len(AttemptsOn(k)) :
                             AttemptFailed(AttemptsOn(k)[i])
              ELSE /\ result \in {Found("qr-code", doc.payload),
                                  Found("qr-code-pdf", doc.payload)}
                   /\ Decoded(attempts[Len(attempts)].engines)

\* A PDF whose render fails at one scale and whose four rasters go through
\* the fourteen strategies, three engines each, without a payload.
C19_Witness ==
  /\ doc.kind = "pdf"
  /\ xpc = "done"
  /\ result = NotFound("qr-code-pdf-failed")
  /\ Cardinality(Candidates) = Len(scales) - 1
  /\ Len(attempts) = (Len(scales) - 1) * Len(RasterOrder(doc, 1))
  /\ \A i \in 1..Len(attempts) : Len(attempts[i].engines) = Len(Engines)

\* The scan of raster k is over.
ScanOver(k) ==
  AttemptsOn(k) # <<>> /\ (src # k \/ xpc \in {"scanned", "done"})

\* C20 as stated: on every raster the first strategy attempted is the
\* unmodified image, and no strategy other than a downscale step is attempted
\* after a downscale step.
C20_AsStated ==
  \A k \in 0..Len(scales) :
    LET a == AttemptsOn(k)
    IN  /\ a # <<>> => a[1].strategy = "original"
        /\ \A i, j \in 1..Len(a) :
             (i < j /\ a[i].strategy \in Range(DownscaleStrategies))
               => a[j].strategy \in Range(DownscaleStrategies)

\* C20: on every raster the first strategy attempted is the unmodified image;
\* the downscale steps are attempted only on a raster wider or higher than
\* 2000 px, as the ninth to eleventh attempts, after the eight first
\* strategies; the strategies attempted after them are the six last ones, and
\* a scan that finds nothing ends with the last of these.
C20_DownscaleBeforeLastStrategies ==
  \A k \in 0..Len(scales) :
    LET a         == AttemptsOn(k)
        oversized == IsOversized(RasterWidth(doc, k), RasterHeight(doc, k))
        nine      == Len(FirstStrategies) + 1
        eleven    == Len(FirstStrategies) + Len(DownscaleStrategies)
    IN  /\ a # <<>> => a[1].strategy = "original"
        /\ \A i \in 1..Len(a) :
             /\ i < nine => a[i].strategy = FirstStrategies[i]
             /\ a[i].strategy \in Range(DownscaleStrategies)
                  <=> (oversized /\ i \in nine..eleven)
             /\ (i >= nine /\ a[i].strategy \notin Range(DownscaleStrategies))
                  => a[i].strategy \in Range(LastStrategies)
        /\ (ScanOver(k) /\ a[Len(a)].outcome # "code")
             => /\ a[Len(a)].strategy = LastStrategies[Len(LastStrategies)]
                /\ Len(a) = (IF oversized THEN eleven ELSE nine - 1)
                              + Len(LastStrategies)

\* An oversized image on which nothing is found: the three downscale steps
\* are the ninth to eleventh of seventeen attempts, and the aggressive
\* posterize follows them.
C20_Witness ==
  /\ doc.kind = "image"
  /\ xpc = "done"
  /\ result = NotFound("qr-code")
  /\ IsOversized(doc.width, doc.height)
  /\ Len(attempts) = Cardinality(StrategyNames)
  /\ attempts[Len(FirstStrategies) + Len(DownscaleStrategies)].strategy = "scale-800"
  /\ attempts[Len(FirstStrategies) + Len(DownscaleStrategies) + 1].strategy
       = "posterize-aggressive"

(***************************************************************************)
(* The field parsers: extractData on documents whose payload or text is    *)
(* drawn from a pool.                                                      *)
(*                                                                         *)
(* A structured payload is written from segments joined by '*'.  Each      *)
(* segment records how it was written: its key as written, the key's name, *)
(* and its value, everything after the first ':'.                          *)
(***************************************************************************)
\* At most this many segments in a payload.
MaxSegments == 2

Segment(key, value) ==
  [text |-> key \o ":" \o value, name |-> trim(key), value |-> value]

\* A segment without a separator.
Bare(text) == [text |-> text, name |-> "", value |-> ""]

SegmentPool ==
  {Segment("O", "55,20"), Segment(" O ", "1234,5"),
   Segment("O", "0,00"), Segment("O", "abc"),
   Segment("F", "20250929"), Segment("F", "19991231"), Segment("F", "2025092"),
   Segment("F", "29-09-25"),
   Segment("G", "FT 1/2"), Segment("G", "FT 1:2"), Segment("G", " "),
   Segment("A", "123456789"),
   Segment("I7", "44,88"),
   Bare(""), Bare("FT 9/9"), Bare("x 3,21")}

\* The amounts written in the pool, in hundredths.
AmountWritten ==
  [v \in {"55,20", "1234,5", "0,00"} |->
     CASE v = "55,20" -> 5520
       [] v = "1234,5" -> 123450
       [] OTHER -> 0]

\* The dates written in the pool.
DateWritten ==
  [v \in {"20250929", "19991231"} |->
     IF v = "20250929" THEN "2025-09-29" ELSE "1999-12-31"]

RECURSIVE SegmentLists(_)
SegmentLists(n) ==
  IF n = 0 THEN {<<>>}
  ELSE LET shorter == SegmentLists(n - 1)
       IN  shorter \cup {Append(l, g) : l \in shorter, g \in SegmentPool}

\* Array.prototype.join of the segments' texts.
RECURSIVE Join(_, _)
Join(segments, sep) ==
  IF segments = <<>> THEN ""
  ELSE IF Len(segments) = 1 THEN segments[1].text
  ELSE segments[1].text \o sep \o Join(Tail(segments), sep)

\* The texts given to the free-text parser.
Texts ==
  {"Total: Eur 1.234,56", "Total Amount Due: $1,234.56", TextContent,
   "Grand Total: $1,234.56", "Total: 55.20", "a pagar: 12,00", "55,20 EUR",
   "1,234.56 USD", "Invoice Number: INV-77\nAmount Due: 1,000", "",
   "abc\nde: Loja Boa Rua 1", "total eur 0,00 eur 2,00", "FT 9/9 x 3,21"}

\* An image whose code the first strategy finds, a PDF whose code is found
\* at the second scale after a failed render, a text file.
ParseDoc(kind, ext, segments, payload) ==
  [kind |-> kind, ext |-> ext, loads |-> TRUE, width |-> 595, height |-> 842,
   renderFails |-> IF kind = "pdf" THEN {1} ELSE {},
   decoders |-> [jsQR |-> "code", HybridBinarizer |-> "code",
                 GlobalHistogramBinarizer |-> "code"],
   payload |-> payload, segments |-> segments,
   marks |-> [k \in 0..Len(scales) |->
                IF (kind = "image" /\ k = 0) \/ (kind = "pdf" /\ k > 0)
                  THEN PageMarking("first") ELSE Unmarked]]

\* A decoded payload is not empty.  The images carry every payload of up to
\* MaxSegments segments, the PDFs the payloads of one segment.
ParseDocs ==
  {ParseDoc("image", ".png", l, Join(l, "*")) :
     l \in {m \in SegmentLists(MaxSegments) : Join(m, "*") # ""}}
  \cup {ParseDoc("pdf", ".pdf", <<g>>, g.text) : g \in SegmentPool \ {Bare("")}}
  \cup {ParseDoc("text", ".txt", <<>>, t) : t \in Texts}

InitParse ==
  /\ InitQueue
  /\ NoJobRun
  /\ InitCache
  /\ doc \in ParseDocs
  /\ xpc = "start"
  /\ src = 0
  /\ strat = 0
  /\ attempts = <<>>
  /\ renders = <<>>
  /\ qrData = NULL
  /\ result = NULL

SpecParse == InitParse /\ [][NextExtract]_vars

\* extractData has returned the record of a decoded payload.
Parsed == doc.kind \in {"image", "pdf"} /\ xpc = "done"

\* The places of the segments of the payload with the given key.
SegmentsNamed(name) ==
  {k \in 1..Len(doc.segments) : doc.segments[k].name = name}

MaxOf(S) == CHOOSE x \in S : \A y \in S : y <= x

\* The places of the total-amount segments that are well formed and positive.
AmountSegments ==
  {k \in SegmentsNamed("O") :
     /\ doc.segments[k].value \in DOMAIN AmountWritten
     /\ AmountWritten[doc.segments[k].value] > 0}

\* C21: when the payload has a segment of key O whose value is a positive
\* amount written with a decimal comma, the record's totalValue is that
\* amount with the comma read as the decimal point (the amount of the last
\* such segment when there are several), whatever the other segments are.
C21_TotalAmountRead ==
  (Parsed /\ AmountSegments # {})
    => result.totalValue =
         JsNumber(AmountWritten[doc.segments[MaxOf(AmountSegments)].value])

\* The payload "I7:44,88*O:55,20": the total is 55.20 and not the amount
\* of the segment before it.
C21_Witness ==
  /\ Parsed
  /\ Len(doc.segments) = MaxSegments
  /\ AmountSegments = {2}
  /\ doc.segments[1].text = "I7:44,88"
  /\ doc.segments[2].text = "O:55,20"
  /\ result.totalValue = JsNumber(5520)

\* The places of the date segments whose value is a date of eight digits.
DateSegments ==
  {k \in SegmentsNamed("F") : doc.segments[k].value \in DOMAIN DateWritten}

\* The places of the date segments whose value has eight characters.
EightLong == {k \in SegmentsNamed("F") : Len(doc.segments[k].value) = 8}

TextParsed == doc.kind = "text" /\ xpc = "done"

\* C23 as stated: the total read from the text "Total: Eur 1.234,56" is
\* 1234.56, and the total read from the text "Total Amount Due: $1,234.56"
\* is 1234.56.
C23_AsStated ==
  (TextParsed /\ doc.payload \in {"Total: Eur 1.234,56",
                                  "Total Amount Due: $1,234.56"})
    => result.totalValue = JsNumber(123456)

\* The fields of the record each parser returns.
ParserFields(kind) ==
  {"totalValue", "currency", "invoiceNumber", "invoiceDate", "supplierName"}
    \cup (IF kind = "text" THEN {} ELSE {"customerNIF"})

\* C24: on every payload and every text, extractData returns the parser's
\* record and throws nothing; each field of the record is null, a string or
\* a number (never NaN, never left undefined), whatever the other fields
\* are.
C24_ParsersNeverFail ==
  /\ xpc # "threw"
  /\ xpc = "done" =>
       \A f \in ParserFields(doc.kind) :
         result[f].type \in {"null", "string", "number"}

\* The payload "O:55,20": the record has the total and the default currency,
\* and null for every other field.
C24_Witness ==
  /\ Parsed
  /\ doc.payload = "O:55,20"
  /\ result.totalValue = JsNumber(5520)
  /\ \A f \in {"invoiceNumber", "invoiceDate", "supplierName", "customerNIF"} :
       result[f] = JsNull

(***************************************************************************)
(* Properties of the record handed to the board update.                    *)
(***************************************************************************)
\* updateMondayBoard has been called with the record extractData returned.
Handed == jpc = "updateMondayBoard"

\* The pathway that produced the values of the record.
Pathway ==
  IF doc.kind = "text" THEN "free-text"
  ELSE IF result.text # "" THEN "structured"
  ELSE "none"

\* method: 'qr-code-pdf' and method: 'qr-code' next to text: qrData.
DecodedMethods == {"qr-code-pdf", "qr-code"}

\* C25 as stated: the record handed to the board update carries a method;
\* the method of a record produced when nothing was decoded is not one that
\* a decoded record carries, and the method of a record produced from free
\* text is neither of these.
C25_AsStated ==
  Handed =>
    /\ result.method # NULL
    /\ Pathway = "none" => result.method \notin DecodedMethods
    /\ Pathway = "free-text"
         => result.method \notin DecodedMethods
                                   \cup {r.method : r \in NotFoundRecords}

(***************************************************************************)
(* Properties of the delay between the jobs of a processor.                *)
(***************************************************************************)
\* The invocations that have not ended.
Live == {w \in Procs : procs[w].pc # "none"}

\* C26: when the job of an invocation ends, completed or failed, the
\* invocation waits for the delay without touching the queue or the count of
\* active processors; an invocation takes a further entry only in the step
\* in which its delay elapses; and every live invocation, one that waits for
\* the delay included, is counted in activeProcessors.
C26_DelayBetweenJobs ==
  /\ [](activeProcessors = Cardinality(Live))
  /\ [][\A w \in Procs :
          /\ (/\ procs[w].pc = "job"
              /\ \E outcome \in {"completed", "failed"} :
                   finished' = Append(finished, [id |-> procs[w].job.id,
                                                 outcome |-> outcome]))
               => /\ procs'[w] = [procs[w] EXCEPT !.pc = "delay"]
                  /\ started' = started
                  /\ processingQueue' = processingQueue
                  /\ activeProcessors' = activeProcessors
          /\ (/\ procs'[w].pc = "job"
              /\ procs'[w].prev # 0
              /\ procs'[w] # procs[w])
               => /\ procs[w].pc = "delay"
                  /\ procs'[w].prev = procs[w].job.id
                  /\ started' = Append(started, procs'[w].job.id)]_vars

\* A processor is at its second job: the first one has been reported and
\* the delay has elapsed in between.
C26_Witness ==
  \E w \in Procs :
    /\ procs[w].pc = "job"
    /\ procs[w].prev # 0
    /\ \E i \in 1..Len(finished) :
         /\ finished[i].id = procs[w].prev
         /\ finished[i].outcome = "failed"

(***************************************************************************)
(* Properties of the engines run on one processed raster.                  *)
(***************************************************************************)
\* The attempts in which tryQRScan was entered and its first engine returned.
Scans == {i \in 1..Len(attempts) : attempts[i].engines # <<>>}

\* C27: in every tryQRScan call the engines run in the order jsQR (normal
\* and inverted polarity), ZXing on the HybridBinarizer, ZXing on the
\* GlobalHistogramBinarizer; an engine runs only when every engine before it
\* gave no payload; the call ends at the first payload, which makes the
\* strategy find the code; and a ZXing reader that throws is followed by the
\* next engine, or by a plain miss of the strategy, never by a thrown
\* strategy.
C27_EngineOrder ==
  \A i \in Scans :
    LET runs == attempts[i].engines
    IN  /\ Len(runs) <= Len(Engines)
        /\ \A n \in 1..Len(runs) : runs[n].engine = Engines[n]
        /\ runs[1].polarities = <<"normal", "inverted">>
        /\ \A n \in 1..(Len(runs) - 1) : runs[n].outcome # "code"
        /\ runs[Len(runs)].outcome # "code" => Len(runs) = Len(Engines)
        /\ attempts[i].outcome
             = (IF runs[Len(runs)].outcome = "code" THEN "code" ELSE "none")
        /\ \A n \in 2..Len(runs) :
             runs[n].outcome = "throw"
               => /\ attempts[i].outcome # "throw"
                  /\ n < Len(Engines) => Len(runs) > n

\* The HybridBinarizer reader threw and the GlobalHistogramBinarizer reader
\* then returned the payload.
C27_Witness ==
  \E i \in Scans :
    LET runs == attempts[i].engines
    IN  /\ Len(runs) = 3
        /\ runs[1].outcome = "none"
        /\ runs[2].outcome = "throw"
        /\ runs[3].outcome = "code"
        /\ attempts[i].outcome = "code"
        /\ qrData = doc.payload

(***************************************************************************)
(* Properties of the downscale steps.                                      *)
(***************************************************************************)
\* Raster k is wider or higher than 2000 px.
Over2000(k) == RasterWidth(doc, k) > 2000 \/ RasterHeight(doc, k) > 2000

\* The strategies that can precede the n-th downscale step.
BeforeDownscale(n) == FirstStrategies \o SubSeq(DownscaleStrategies, 1, n - 1)

\* The longer side of a raster of the given size.
LongerSide(size) == IF size[1] > size[2] THEN size[1] ELSE size[2]

\* C28: on every raster the n-th downscale step (1600, 1200, 800 px on the
\* longer side) is attempted only when the raster is wider or higher than
\* 2000 px, after the eight first strategies and the downscale steps before
\* it, all of which failed; and once the scan of the raster is over the step
\* has been attempted exactly when the raster is wider or higher than 2000 px
\* and none of these earlier strategies gives the payload.  On a raster of at
\* most 2000 px on both sides no downscale step is attempted.
C28_DownscaleIffOversized ==
  \A k \in 0..Len(scales) :
    LET a == AttemptsOn(k)
    IN  \A n \in 1..Len(DownscaleStrategies) :
          LET name      == DownscaleStrategies[n]
              before    == BeforeDownscale(n)
              attempted == \E i \in 1..Len(a) : a[i].strategy = name
              size      == Downscaled(RasterWidth(doc, k), RasterHeight(doc, k),
                                      DownscaleSize[name])
          IN  /\ attempted
                   => /\ Over2000(k)
                      /\ a[Len(before) + 1].strategy = name
                      /\ \A j \in 1..Len(before) :
                           /\ a[j].strategy = before[j]
                           /\ a[j].outcome # "code"
                      /\ LongerSide(size)
                           = <<1600, 1200, 800>>[n]
              /\ ScanOver(k)
                   => (attempted
                         <=> /\ Over2000(k)
                             /\ \A j \in 1..Len(before) :
                                  ~Decodable(k, before[j]))
              /\ ~Over2000(k)
                   => \A i \in 1..Len(a) :
                        a[i].strategy \notin Range(DownscaleStrategies)

\* An image higher than 2000 px on which the first ten strategies fail and
\* the step down to 800 px finds the code.
C28_Witness ==
  /\ doc.kind = "image"
  /\ doc.width <= 2000 /\ doc.height > 2000
  /\ Len(attempts) = 11
  /\ attempts[9].strategy = "scale-1600" /\ attempts[9].outcome = "none"
  /\ attempts[10].strategy = "scale-1200" /\ attempts[10].outcome = "throw"
  /\ attempts[11].strategy = "scale-800" /\ attempts[11].outcome = "code"
  /\ xpc = "done"

(***************************************************************************)
(* Properties of the fallback of the structured parser.                    *)
(***************************************************************************)
\* The record read from the segments of the payload, before any fallback.
StructuredRead == ReadFields(EmptyQRRecord, split(doc.payload, "*"), 1)

\* A field the structured read did not resolve: null, or an empty string.
Unresolved(v) == v = JsNull \/ v = JsString("")

\* Neither the total nor the invoice identifier was resolved.
NothingResolved ==
  /\ Unresolved(StructuredRead.totalValue)
  /\ Unresolved(StructuredRead.invoiceNumber)

\* The fields of the structured parser's record.
QRFields == DOMAIN EmptyQRRecord

\* The numbers with two decimals written in the segments of the pool, in
\* hundredths.
TwoDecimalsWritten ==
  [t \in {"O:0,00", "I7:44,88", "x 3,21"} |->
     CASE t = "O:0,00" -> 0
       [] t = "I7:44,88" -> 4488
       [] OTHER -> 321]

\* The places of the segments in which a number with two decimals is
\* written.
TwoDecimalsSegments ==
  {k \in 1..Len(doc.segments) : doc.segments[k].text \in DOMAIN TwoDecimalsWritten}

\* The invoice identifiers of the form "FT|FTA|FR|FA number" written in the
\* segments of the pool, as far as the characters of a number go.
InvoiceIdWritten ==
  [t \in {"G:FT 1/2", "G:FT 1:2", "FT 9/9"} |->
     CASE t = "G:FT 1/2" -> "FT 1/2"
       [] t = "G:FT 1:2" -> "FT 1"
       [] OTHER -> "FT 9/9"]

\* The places of the segments in which such an identifier is written.
InvoiceIdSegments ==
  {k \in 1..Len(doc.segments) : doc.segments[k].text \in DOMAIN InvoiceIdWritten}

\* C29 as stated: when neither the total nor the invoice identifier was
\* resolved by the structured read, the total and the identifier of the
\* record are those parseInvoiceData finds in the raw payload; otherwise the
\* record is the structured read.
C29_AsStated ==
  Parsed =>
    IF NothingResolved
      THEN /\ result.totalValue = parseInvoiceData(doc.payload).totalValue
           /\ result.invoiceNumber = parseInvoiceData(doc.payload).invoiceNumber
      ELSE \A f \in QRFields : result[f] = StructuredRead[f]

\* C29: when neither the total nor the invoice identifier was resolved by
\* the structured read, the record is the structured read with the
\* identifier replaced by the first "FT|FTA|FR|FA number" of the raw payload,
\* if there is one, and the total by the first number with two decimals of
\* the raw payload, if there is one, a decimal comma read as a point;
\* otherwise the record is the structured read, unchanged.
C29_FallbackIffNothingResolved ==
  Parsed =>
    IF NothingResolved
      THEN /\ \A f \in QRFields : result[f] = SimpleParsing(StructuredRead, doc.payload)[f]
           /\ \A f \in QRFields \ {"totalValue", "invoiceNumber"} :
                result[f] = StructuredRead[f]
           /\ result.totalValue =
                (IF TwoDecimalsSegments = {} THEN StructuredRead.totalValue
                 ELSE JsNumber(TwoDecimalsWritten[
                        doc.segments[MinOf(TwoDecimalsSegments)].text]))
           /\ result.invoiceNumber =
                (IF InvoiceIdSegments = {} THEN StructuredRead.invoiceNumber
                 ELSE JsString(InvoiceIdWritten[
                        doc.segments[MinOf(InvoiceIdSegments)].text]))
      ELSE \A f \in QRFields : result[f] = StructuredRead[f]

\* The payload "x 3,21*I7:44,88": nothing is resolved by the structured
\* read, and the fallback takes 3.21, the first number with two decimals,
\* where parseInvoiceData finds no total.
C29_Witness ==
  /\ Parsed
  /\ doc.payload = "x 3,21*I7:44,88"
  /\ NothingResolved
  /\ result.totalValue = JsNumber(321)
  /\ result.invoiceNumber = JsNull

(***************************************************************************)
(* Properties of the split of a segment into key and value.                *)
(***************************************************************************)
\* The places of the identifier segments whose value is not blank.
IdentifierSegments ==
  {k \in SegmentsNamed("G") : trim(doc.segments[k].value) # ""}

\* C30 as stated: the value of a segment is everything after its first ':',
\* so the invoice identifier of the record is the whole value of the last
\* segment of key G, trimmed, also when the value contains a ':'.
C30_AsStated ==
  (Parsed /\ SegmentsNamed("G") # {}
          /\ MaxOf(SegmentsNamed("G")) \in IdentifierSegments)
    => result.invoiceNumber =
         JsString(trim(doc.segments[MaxOf(SegmentsNamed("G"))].value))

(***************************************************************************)
(* Properties of the amounts read from free text.                          *)
(***************************************************************************)
\* The text the patterns are matched against.
CleanText == trim(CollapseWhiteSpace(doc.payload))

\* The amount the k-th total pattern matches in the text; "" when it does
\* not match.
MatchedAmount(k) ==
  LET m == match(CleanText, totalPatterns[k], Flags(TRUE, FALSE))
  IN  IF m.found THEN m.groups[1].str ELSE ""

\* The last comma of the amount occurs after its last period.
CommaDecimal(value) ==
  lastIndexOf(value, ",") > 0 /\ lastIndexOf(value, ",") > lastIndexOf(value, ".")

\* The amount as the claim reads it: periods removed in either case.
ReadAsStated(value) ==
  parseFloat(IF CommaDecimal(value)
               THEN replace(replaceAll(value, ".", ""), ",", ".")
               ELSE replaceAll(value, ".", ""))

\* The amount read with commas as thousands separators when the comma is
\* not the decimal separator.
ReadByConvention(value) ==
  parseFloat(IF CommaDecimal(value)
               THEN replace(replaceAll(value, ".", ""), ",", ".")
               ELSE replaceAll(value, ",", ""))

\* The total of the text under a reading of the matched amounts: the amount
\* of the first pattern that matches a positive number.
TotalUnder(Read(_)) ==
  LET positive == {k \in 1..Len(totalPatterns) :
                     MatchedAmount(k) # "" /\ IsPositive(Read(MatchedAmount(k)))}
  IN  IF positive = {} THEN JsNull ELSE Read(MatchedAmount(MinOf(positive)))

\* C31 as stated: the total of a text is its matched amount read with the
\* comma as the decimal point and the periods removed when the last comma
\* comes after the last period, and with the periods removed otherwise.
C31_AsStated ==
  TextParsed => result.totalValue = TotalUnder(ReadAsStated)

\* C31: the total of a text is its matched amount read with the comma as the
\* decimal point and the periods removed when the last comma comes after the
\* last period, and with the commas removed, a period being the decimal
\* point, otherwise.
C31_CommaDecimalOrCommasStripped ==
  TextParsed => result.totalValue = TotalUnder(ReadByConvention)

\* The text "1,234.56 USD": the last comma comes before the period, the
\* comma is dropped and the total is 1234.56.
C31_Witness ==
  /\ TextParsed
  /\ doc.payload = "1,234.56 USD"
  /\ \E k \in 1..Len(totalPatterns) :
       /\ MatchedAmount(k) = "1,234.56"
       /\ ~CommaDecimal(MatchedAmount(k))
  /\ result.totalValue = JsNumber(123456)

(***************************************************************************)
(* Properties of the image buffers held by the cascade.                    *)
(***************************************************************************)
\* C32 as stated: while a strategy runs its decode attempts the job holds at
\* most one image buffer.
C32_AsStated ==
  \A i \in 1..Len(attempts) : Cardinality(attempts[i].held) <= 1

(***************************************************************************)
(* Properties of the pool while entries wait.                              *)
(***************************************************************************)
\* C33: between event-loop turns a non-empty queue implies that exactly
\* MAX_CONCURRENT_PROCESSORS invocations are live and counted; and in every
\* turn that starts invocations, each of them takes an entry in that same
\* turn, so that as many entries are dequeued as invocations are started and
\* no invocation is left at the loop head.
C33_QueueWaitsOnlyOnFullPool ==
  /\ [](Len(processingQueue) > 0
          => /\ activeProcessors = MAX_CONCURRENT_PROCESSORS
             /\ Cardinality(Live) = MAX_CONCURRENT_PROCESSORS)
  /\ [][spawned' # spawned
          => /\ Len(started') - Len(started) = spawned' - spawned
             /\ \A w \in Procs :
                  (procs[w].pc = "none" /\ procs'[w].pc # "none")
                    => /\ procs'[w].pc = "job"
                       /\ procs'[w].prev = 0
                       /\ procs'[w].job.id = started'[Len(started')]]_vars

\* An entry waits while both invocations are live, one of them in the delay
\* after its job.
C33_Witness ==
  /\ Len(processingQueue) = 1
  /\ activeProcessors = MAX_CONCURRENT_PROCESSORS
  /\ spawned = MAX_CONCURRENT_PROCESSORS
  /\ \E w \in Procs : procs[w].pc = "delay"
  /\ \E w \in Procs : procs[w].pc = "job"

(***************************************************************************)
(* Properties of the count of active processors.                           *)
(***************************************************************************)
\* C34: activeProcessors is the number of processQueue invocations started
\* and not yet through their finally block; every turn changes it by the
\* number of invocations started minus the number of finally blocks run in
\* that turn, one each; and it is never negative.
C34_CountIsLiveInvocations ==
  /\ [](/\ activeProcessors = Cardinality(Live)
        /\ activeProcessors = spawned - exited
        /\ activeProcessors >= 0)
  /\ [][/\ activeProcessors' - activeProcessors
             = (spawned' - spawned) - (exited' - exited)
        /\ spawned' >= spawned
        /\ exited' \in {exited, exited + 1}]_vars

\* Three invocations have been started and two have run their finally block:
\* the count is 1.
C34_Witness ==
  /\ spawned = MAX_CONCURRENT_PROCESSORS + 1
  /\ exited = MAX_CONCURRENT_PROCESSORS
  /\ activeProcessors = 1
  /\ Cardinality(Live) = 1

(***************************************************************************)
(* Properties of a job whose decode stage meets an error.                  *)
(***************************************************************************)
\* extractData has been called on an image or a PDF.
DecodeCalled ==
  /\ Branch(toLowerCase(doc.ext)) \in {"image", "pdf"}
  /\ \E k \in 1..Len(calls) : calls[k] = "extractData"

\* C35: when extractData is called on an image or a PDF, nothing is raised
\* by it: an unreadable image and an unloadable PDF give the not-found
\* record without any strategy attempted; a strategy that throws is followed
\* by the next strategy of the raster, or ends the scan of the raster when it
\* is the last one; the job goes on to updateMondayBoard, with no column set
\* when no code was found, and is rejected only when that update is raised
\* and reported completed when it returns.
C35_DecodeNeverFailsJob ==
  DecodeCalled =>
    /\ xpc # "threw"
    /\ (xpc = "done" /\ ~doc.loads)
         => /\ attempts = <<>>
            /\ result = NotFound(IF Branch(toLowerCase(doc.ext)) = "image"
                                   THEN "qr-code" ELSE "qr-code-pdf-error")
    /\ \A i \in 1..Len(attempts) :
         attempts[i].outcome = "throw"
           => LET order == RasterOrder(doc, attempts[i].raster)
              IN  \/ attempts[i].strategy = order[Len(order)]
                  \/ i = Len(attempts) /\ xpc = "scan_try"
                  \/ /\ i < Len(attempts)
                     /\ attempts[i + 1].raster = attempts[i].raster
                     /\ \E n \in 1..(Len(order) - 1) :
                          /\ order[n] = attempts[i].strategy
                          /\ order[n + 1] = attempts[i + 1].strategy
    /\ jpc \notin {"extractData", "idle"}
         => /\ xpc = "done"
            /\ Last(calls) = "updateMondayBoard"
            /\ Len(sink) = 1
            /\ result.text = "" => DOMAIN sink[1] = {}
    /\ jpc = "rejected" => (posts # <<>> /\ Last(posts).response # "data")
    /\ jpc = "resolved" => Last(posts).response = "data"
    /\ "failed" \in Outcomes => jpc = "rejected"
    /\ "completed" \in Outcomes => jpc = "resolved"

\* An image that Jimp cannot read: the board was updated with no column set
\* and the job is reported completed.
C35_Witness ==
  /\ DecodeCalled
  /\ doc.kind = "image"
  /\ ~doc.loads
  /\ attempts = <<>>
  /\ xpc = "done"
  /\ result = NotFound("qr-code")
  /\ sink = <<mapDataToColumns(result)>>
  /\ DOMAIN sink[1] = {}
  /\ finished = <<[id |-> 1, outcome |-> "completed"]>>

(***************************************************************************)
(* Properties of the sign of the total.                                    *)
(***************************************************************************)
\* C36 as stated: in every record extractData returns, from a decoded
\* payload or from a text, totalValue is null or a number greater than zero.
C36_AsStated ==
  (Parsed \/ TextParsed)
    => \/ result.totalValue = JsNull
       \/ /\ result.totalValue.type = "number"
          /\ result.totalValue.num > 0

(***************************************************************************)
(* Properties of the column set sent to the board.                         *)
(***************************************************************************)
\* C37: the column set sent by updateMondayBoard has a column only when the
\* field of the record it is filled from is present (neither null nor
\* undefined), with the value of that field; a record without a code
\* (NotFound) is sent as the empty column set.
C37_OnlyPresentFieldsWritten ==
  \A k \in 1..Len(sink) :
    /\ DOMAIN sink[k] \subseteq ColumnIds
    /\ \A c \in DOMAIN sink[k] :
         /\ ColumnField(result, c).type \notin {"null", "undefined"}
         /\ sink[k][c] = ColumnField(result, c)
    /\ result \in NotFoundRecords => DOMAIN sink[k] = {}

\* A text file: the total and the supplier are written, the invoice number,
\* which is null, and the customer NIF, which the record does not have, are
\* not.
C37_Witness ==
  /\ Len(sink) = 1
  /\ doc.kind = "text"
  /\ result.invoiceNumber = JsNull
  /\ DOMAIN sink[1] = {"numeric_mkwbrpmz", "text_mkwbcyg3"}
  /\ sink[1]["numeric_mkwbrpmz"] = JsNumber(5520)
  /\ jpc = "resolved"

(***************************************************************************)
(* Files of a job.                                                         *)
(***************************************************************************)
\* downloadFile resolved for the job: extractData is called right after it.
DownloadDone == \E i \in 1..Len(calls) : calls[i] = "extractData"

\* C38: once a job whose file was downloaded has reached its outcome
\* (completed, with or without a code found, or failed at a step after the
\* download), neither the downloaded file nor a rendered raster is left on
\* disk.
C38_AsStated ==
  (jpc \in {"resolved", "rejected"} /\ DownloadDone) => files = {}

\* DDDD-DD-DD: ten characters, digits but for a '-' in the fifth and the
\* eighth place.
IsoForm(str) ==
  /\ Len(str) = 10
  /\ \A i \in 1..10 : IF i \in {5, 8} THEN SubSeq(str, i, i) = "-"
                                      ELSE SubSeq(str, i, i) \in Digit

\* The value is written with exactly eight digits.
EightDigits(value) ==
  Len(value) = 8 /\ \A i \in 1..8 : SubSeq(value, i, i) \in Digit

\* C39: the invoiceDate of a record of parseQRCodeData is absent or a string
\* of the form DDDD-DD-DD of decimal digits, and it is absent when no F
\* segment of the payload has a value of exactly eight digits.
C39_AsStated ==
  Parsed =>
    /\ \/ result.invoiceDate = JsNull
       \/ /\ result.invoiceDate.type = "string"
          /\ IsoForm(result.invoiceDate.val)
    /\ (\A k \in SegmentsNamed("F") : ~EightDigits(doc.segments[k].value))
         => result.invoiceDate = JsNull

(***************************************************************************)
(* The asset URL cache of the controller.                                  *)
(***************************************************************************)
\* At most this many getAssetUrl calls are followed.
MaxLookups == 3

\* The time that passes between two reads of Date.now(), in milliseconds.
Elapsed == {1, CACHE_TTL - 1}

\* Variant: an entry is still served at the age of the TTL.
IsFresh_AtTTL(cached, t) == cached # NoEntry /\ t - cached.timestamp <= CACHE_TTL

\* Variant: an entry is served whatever its age.
IsFresh_Forever(cached, t) == cached # NoEntry

\* if (cached && (Date.now() - cached.timestamp < this.CACHE_TTL))
IsFresh(cached, t) == cached # NoEntry /\ t - cached.timestamp < CACHE_TTL

\* What a getAssetUrl call leaves in answers: the key, the entry seen and the
\* time read at the cache test, whether executeQuery was called, and the URL
\* returned ("" when the call threw).
Answer(lookup, queried, outcome, url) ==
  [assetId |-> lookup.assetId, called |-> lookup.called, cached |-> lookup.cached,
   queried |-> queried, outcome |-> outcome, url |-> url]

\* getAssetUrl(assetId) is called by the job of worker c at time t: the
\* cached URL is returned, or the assets query is sent.
getAssetUrl(c, assetId, t) ==
  /\ lookups[c] = NoLookup
  /\ Len(answers) + Cardinality({d \in Lookers : lookups[d] # NoLookup}) < MaxLookups
  /\ now' = t
  /\ LET cached == assetUrlCache[assetId]
         lookup == [assetId |-> assetId, called |-> t, cached |-> cached]
     IN  IF IsFresh(cached, t)
           THEN /\ answers' = Append(answers, Answer(lookup, FALSE, "returned", cached.url))
                /\ UNCHANGED lookups
           ELSE /\ lookups' = [lookups EXCEPT ![c] = lookup]
                /\ UNCHANGED answers
  /\ UNCHANGED <<assetUrlCache, qvars, xvars, jvars>>

\* What executeQuery settles with for the assets query: an asset with its
\* public URL, no asset (getAssetUrl throws 'not found'), or a rejection.
QueryOutcomes == PublicUrls \cup {"noAsset", "rejected"}

\* await this.executeQuery(query, variables) of the call of worker c settles
\* at time t.
AssetQuerySettled(c, outcome, t) ==
  /\ lookups[c] # NoLookup
  /\ now' = t
  /\ lookups' = [lookups EXCEPT ![c] = NoLookup]
  /\ IF outcome \in PublicUrls
       THEN /\ assetUrlCache' = [assetUrlCache EXCEPT ![lookups[c].assetId] =
                                   [url |-> outcome, timestamp |-> t]]
            /\ answers' = Append(answers, Answer(lookups[c], TRUE, "returned", outcome))
       ELSE /\ answers' = Append(answers, Answer(lookups[c], TRUE, "threw", ""))
            /\ UNCHANGED assetUrlCache
  /\ UNCHANGED <<qvars, xvars, jvars>>

NextCache ==
  \E c \in Lookers, d \in Elapsed :
    \/ \E assetId \in AssetIds : getAssetUrl(c, assetId, now + d)
    \/ \E outcome \in QueryOutcomes : AssetQuerySettled(c, outcome, now + d)

SpecCache == Init /\ [][NextCache]_vars

\* The call that settled in this step.
Settled == answers'[Len(answers')]

\* C40: getAssetUrl returns without a query only an entry that is less than
\* 3,600,000 ms old at the call, and returns that entry's URL; a query that
\* gives a URL puts it in the cache under the asset id with the time of that
\* moment; a call that throws, and a call served from the cache, leave the
\* cache as it was.
C40_CacheServesOnlyFreshEntries ==
  /\ [](\A i \in 1..Len(answers) :
          ~answers[i].queried
            => /\ answers[i].cached # NoEntry
               /\ answers[i].called - answers[i].cached.timestamp < 3600000
               /\ answers[i].outcome = "returned"
               /\ answers[i].url = answers[i].cached.url)
  /\ [][/\ Len(answers') = Len(answers) + 1 /\ Settled.queried
                                            /\ Settled.outcome = "returned"
          => assetUrlCache' =
               [assetUrlCache EXCEPT ![Settled.assetId] =
                  [url |-> Settled.url, timestamp |-> now']]
        /\ assetUrlCache' # assetUrlCache
          => /\ Len(answers') = Len(answers) + 1
             /\ Settled.queried
             /\ Settled.outcome = "returned"]_vars

\* An entry cached at time 1 is served at the age of 3,599,999 ms, and at
\* the age of 3,600,000 ms it is fetched again and replaced.
C40_Witness ==
  /\ Len(answers) = 3
  /\ \A i \in 1..3 : answers[i].assetId = "101" /\ answers[i].outcome = "returned"
  /\ answers[1].queried /\ answers[1].cached = NoEntry
  /\ ~answers[2].queried
  /\ answers[2].called - answers[2].cached.timestamp = 3599999
  /\ answers[3].queried
  /\ answers[3].called - answers[3].cached.timestamp = 3600000
  /\ answers[3].cached.url # answers[3].url
  /\ assetUrlCache["101"] = [url |-> answers[3].url, timestamp |-> now]

=========================================================================
